---- MODULE Spec2Model ----
(***************************************************************************)
(* State-machine model of the quiz chain solver:                           *)
(*   main.py            handle_quiz, solve_quiz_background                  *)
(*   utils/quiz_solver  QuizSolver.solve_quiz_chain, _solve_single_question,*)
(*                      _parse_question, download_files, _submit_answer     *)
(*   llm_handler.py     LLMHandler.analyze_quiz, execute_solution           *)
(*                                                                         *)
(* Spec          one solve request: front door, background task, chain      *)
(*               driver and the single-question pipeline, one action per    *)
(*               await-delimited step.                                      *)
(* SpecParse     _parse_question's submission-URL inference over every      *)
(*               token text up to MaxTextLen.                               *)
(* SpecDownload  download_files over every URL list up to MaxUrls, one      *)
(*               action per GET attempt.                                    *)
(***************************************************************************)
EXTENDS Integers, Sequences, FiniteSets, TLC

VARIABLES
    \* ---- clock and front door (main.py)
    now,              \* datetime.now(), in seconds
    active_tasks,     \* main.active_tasks: task id -> entry
    task_id,          \* the id handed to solve_quiz_background
    response,         \* status code of the last /quiz response
    req,              \* the accepted QuizRequest
    \* ---- solve_quiz_chain locals
    pc,               \* position of the request's coroutine
    start_time, current_url, question_count, elapsed,
    chainState,       \* which exit of the while loop was taken
    error,            \* the exception caught at quiz_solver.py:86
    \* ---- _solve_single_question locals
    quiz_url, page_content, question_data, question_details, solution,
    answer, result,
    \* ---- observations of the chain (history)
    pipelines_started, posts, post_url, all_correct,
    \* ---- _parse_question on its own
    p_text, p_html, p_base, p_record, p_done,
    p_error,          \* the exception _parse_question let escape
    \* ---- download_files
    dl_urls, dl_i, dl_attempt, dl_success, dl_last_error, dl_files,
    dl_hist, dl_pc,
    \* ---- _parse_json_response and _process_llm_response on their own
    s_text, s_parsed, s_plan, s_done,
    \* ---- execute_solution on its own
    e_plan, e_pc, e_file, e_runs, e_run, e_unlink, e_out,
    \* ---- the /quiz endpoint on its own (main.py:396-452)
    f_now,            \* datetime.now().timestamp()
    f_request,        \* the body of the last POST /quiz, as sent
    f_response,       \* its status code
    f_tasks,          \* main.active_tasks
    f_scheduled,      \* the calls handed to background_tasks.add_task,
                      \* each with the position of its coroutine
    f_count,          \* requests handled so far
    \* ---- the shared log (main.py:57-77, 369-382)
    quiz_logs,        \* main.quiz_logs, oldest entry first
    l_calls,          \* add_log calls so far
    l_view,           \* the body of a GET /logs response being sent
    \* ---- the event loop shared by the chains and the endpoint
    lp_now,           \* datetime.now(), in seconds
    lp_blocked,       \* the chain inside subprocess.run, or None
    lp_chain,         \* per background task: the chain's locals
    lp_acks,          \* POST /quiz requests acknowledged
    \* ---- analyze_quiz on its own (llm_handler.py:73-93)
    a_question,       \* the question_data argument
    a_pc,
    a_calls,          \* the chat-completion POSTs made, in order
    a_details,        \* question_details
    a_prompt,         \* what _build_analysis_prompt returned
    a_out,            \* what analyze_quiz returned or raised
    \* ---- the classification of one 200 response (quiz_solver.py:358-418)
    c_url, c_ct,      \* the URL and the content-type header
    c_wellFormed,     \* whether the body parses as what it is taken for
    c_payload         \* files[url]

frontVars == <<now, active_tasks, task_id, response, req>>
chainVars == <<pc, start_time, current_url, question_count, elapsed,
               chainState, error>>
pipeVars  == <<quiz_url, page_content, question_data, question_details,
               solution, answer, result>>
histVars  == <<pipelines_started, posts, post_url, all_correct>>
parseVars == <<p_text, p_html, p_base, p_record, p_done, p_error>>
dlVars    == <<dl_urls, dl_i, dl_attempt, dl_success, dl_last_error,
               dl_files, dl_hist, dl_pc>>
salvVars  == <<s_text, s_parsed, s_plan, s_done>>
execVars  == <<e_plan, e_pc, e_file, e_runs, e_run, e_unlink, e_out>>
fdVars    == <<f_now, f_request, f_response, f_tasks, f_scheduled, f_count>>
logVars   == <<quiz_logs, l_calls, l_view>>
loopVars  == <<lp_now, lp_blocked, lp_chain, lp_acks>>
planVars  == <<a_question, a_pc, a_calls, a_details, a_prompt, a_out>>
classVars == <<c_url, c_ct, c_wellFormed, c_payload>>
auxVars   == <<fdVars, logVars, loopVars, planVars, classVars>>
vars == <<frontVars, chainVars, pipeVars, histVars, parseVars, dlVars,
          salvVars, execVars, auxVars>>

-----------------------------------------------------------------------------
(* Bounds of the model *)

\* longest chain the quiz service hands out
MaxQuestions == 3
\* last clock reading explored
MaxNow == 345
\* longest visible text, in tokens
MaxTextLen == 4
\* longest list of resource URLs
MaxUrls == 2
MaxElements == 2
MaxAtobs == 3

(* Program constants *)

\* config.py:21
QUIZ_TIMEOUT_SECONDS == 170
\* quiz_solver.py:328
max_retries == 2
\* quiz_solver.py:198 and 202: wait_for_timeout(3000) and
\* wait_for_timeout(1000), in seconds
PageWait == 4

None == "None"

\* quiz_solver.py:303 and :565
HARDCODED_SUBMIT == "https://tds-llm-analysis.s-anand.net/submit"

-----------------------------------------------------------------------------
(* The URL universe.  URLs are strings; the string functions the code      *)
(* applies to them are tabulated below exactly as Python computes them.    *)

UrlQuiz1  == "https://h.test/quiz-1"
UrlQuiz2  == "https://h.test/quiz/2"
UrlPlain  == "https://h.test/q3"
UrlSubmit == "https://h.test/submit"
UrlAnswer == "https://h.test/answer"
UrlData   == "https://h.test/data.csv"

QuizUrls == {UrlQuiz1, UrlQuiz2, UrlPlain}

\* '/quiz-' in quiz_url or '/quiz/' in quiz_url
HasQuizSegment(u) == u \in {UrlQuiz1, UrlQuiz2}

\* re.sub(r'/quiz[-/]', '/submit-', quiz_url)
QuizSub(u) ==
    CASE u = UrlQuiz1 -> "https://h.test/submit-1"
      [] u = UrlQuiz2 -> "https://h.test/submit-2"
      [] OTHER        -> u

\* f"{parsed.scheme}://{parsed.netloc}/submit"
HostSubmit(u) ==
    IF u = HARDCODED_SUBMIT THEN HARDCODED_SUBMIT ELSE "https://h.test/submit"

-----------------------------------------------------------------------------
(* _parse_question: submission-URL inference (quiz_solver.py:298-311).     *)
(* The visible text is a sequence of tokens joined by single spaces; NL is *)
(* a line break.  The token predicates say what the regular expressions    *)
(* see in each token.                                                      *)

NL == "\n"

UrlTokens == {UrlSubmit, UrlAnswer, UrlData}
Vocabulary == {"Post", "at", "here", NL} \cup UrlTokens

\* https?://[^\s'"<>]+ matches the token
IsUrlTok(t) == t \in UrlTokens \cup QuizUrls \cup {HARDCODED_SUBMIT}

\* (?:POST|post|Post|submit|Submit) under re.IGNORECASE occurs in the token
HasKeyword(t) == t \in {"Post", UrlSubmit, HARDCODED_SUBMIT}

\* (?:to|at) ends the token, so that \s+ can follow it
EndsToAt(t) == t \in {"to", "at"}

\* 'submit' in url.lower() or '/answer' in url.lower()
IsSubmitLike(u) == u \in {UrlSubmit, UrlAnswer, HARDCODED_SUBMIT}

\* index of the URL captured when the phrase starts in token i and its
\* to/at is token j; 0 when the pattern does not match that way.  ".*?"
\* does not cross a line break, "\s+" does.
CaptureAt(text, i, j) ==
    IF /\ i < j
       /\ HasKeyword(text[i])
       /\ EndsToAt(text[j])
       /\ \A k \in i..j : text[k] # NL
    THEN LET after == {m \in (j+1)..Len(text) :
                          /\ IsUrlTok(text[m])
                          /\ \A k \in (j+1)..(m-1) : text[k] = NL}
         IN IF after = {} THEN 0 ELSE CHOOSE m \in after : TRUE
    ELSE 0

\* re.search(submit_pattern, text, re.IGNORECASE).group(1), or None:
\* leftmost start, then the shortest ".*?"
SubmitMatch(text) ==
    LET starts == {i \in 1..Len(text) :
                      \E j \in 1..Len(text) : CaptureAt(text, i, j) # 0}
    IN IF starts = {} THEN None
       ELSE LET i0 == CHOOSE i \in starts : \A k \in starts : i <= k
                ends == {j \in 1..Len(text) : CaptureAt(text, i0, j) # 0}
                j0 == CHOOSE j \in ends : \A k \in ends : j <= k
            IN text[CaptureAt(text, i0, j0)]

\* lines 301-303: the captured URL is assigned and then overwritten
SubmitUrlFromMatch(group1) == HARDCODED_SUBMIT

\* lines 305-311: the first URL of the text that looks like a submit URL
RECURSIVE FirstSubmitLike(_)
FirstSubmitLike(text) ==
    IF text = <<>> THEN None
    ELSE IF IsUrlTok(Head(text)) /\ IsSubmitLike(Head(text)) THEN Head(text)
    ELSE FirstSubmitLike(Tail(text))

InferSubmitUrl(text) ==
    LET group1 == SubmitMatch(text)
        submit_url == IF group1 # None THEN SubmitUrlFromMatch(group1)
                      ELSE None
    IN IF submit_url = None THEN FirstSubmitLike(text) ELSE submit_url

-----------------------------------------------------------------------------
(* _parse_question: decode literals and resource links                     *)
(* (quiz_solver.py:229-294).  A page is its visible text, the arguments of *)
(* its atob('...') literals in order of occurrence, and its audio, a and   *)
(* video elements in document order, each with its src or href attribute   *)
(* (None when absent) and the src attributes of its <source> children.     *)

\* arguments the pattern of line 229 captures
B64Args == {"c2VjcmV0", "aGVyZQ==", "abc", "/w=="}

\* base64.b64decode(b64).decode('utf-8'); None when either call raises
\* ("abc": incorrect padding, "/w==": byte 0xff is not UTF-8)
B64DecodeUtf8(b64) ==
    CASE b64 = "c2VjcmV0" -> "secret"
      [] b64 = "aGVyZQ==" -> "here"
      [] OTHER            -> None

\* lines 232-238: the decoded literals, failures skipped
RECURSIVE DecodedTexts(_)
DecodedTexts(base64_matches) ==
    IF base64_matches = <<>> THEN <<>>
    ELSE LET decoded == B64DecodeUtf8(Head(base64_matches))
             rest == DecodedTexts(Tail(base64_matches))
         IN IF decoded = None THEN rest ELSE <<decoded>> \o rest

\* '\n'.join(decoded_texts)
RECURSIVE JoinLines(_)
JoinLines(decoded_texts) ==
    IF Len(decoded_texts) <= 1 THEN decoded_texts
    ELSE <<Head(decoded_texts), NL>> \o JoinLines(Tail(decoded_texts))

\* lines 240-241
WithDecodedAppended(decoded_texts, text) ==
    IF decoded_texts # <<>>
    THEN text \o <<NL>> \o JoinLines(decoded_texts)
    ELSE text
WithDecoded(decoded_texts, text) ==
    IF decoded_texts # <<>>
    THEN JoinLines(decoded_texts) \o <<NL>> \o text
    ELSE text

SrcClipAbs  == "https://h.test/clip.mp3"
SrcClipRel  == "clip.mp3"
SrcDataRel  == "/data.csv"
SrcNotesRel == "notes"
\* an extension in the middle of the path
SrcExportRel == "/export.csv/preview"
\* a scheme-relative reference with an unclosed bracket in its host
SrcBadRel    == "//[::1"
UrlExport    == "https://h.test/export.csv/preview"
Srcs == {SrcClipAbs, SrcClipRel, SrcDataRel}

\* src.startswith(('http://', 'https://'))
StartsWithHttp(src) == src = SrcClipAbs \/ IsUrlTok(src)

\* urljoin(base_url, src) for the relative references above
UrlJoin(base_url, src) ==
    CASE src = SrcClipRel  -> IF base_url = UrlQuiz2
                              THEN "https://h.test/quiz/clip.mp3"
                              ELSE SrcClipAbs
      [] src = SrcDataRel  -> UrlData
      [] src = SrcExportRel -> UrlExport
      [] src = SrcNotesRel -> IF base_url = UrlQuiz2
                              THEN "https://h.test/quiz/notes"
                              ELSE "https://h.test/notes"
      [] OTHER             -> src

\* urljoin(base_url, src) raises ValueError("Invalid IPv6 URL")
UrlJoinRaises(base_url, src) == src = SrcBadRel

\* lines 249-250, 258-259, 268-269, 284-285
Resolve(base_url, src) ==
    IF ~StartsWithHttp(src) THEN UrlJoin(base_url, src) ELSE src

\* any(ext in href.lower() for ext in all_extensions), lines 272-276
HasFileExtension(href) ==
    href \in {SrcClipAbs, "https://h.test/quiz/clip.mp3", UrlData, UrlExport}

Range(q) == {q[i] : i \in 1..Len(q)}

\* "if src not in file_urls: file_urls.append(src)"
AppendNew(file_urls, src) ==
    IF src \in Range(file_urls) THEN file_urls ELSE Append(file_urls, src)

RECURSIVE AppendAllNew(_, _, _)
AppendAllNew(file_urls, base_url, sources) ==
    IF sources = <<>> THEN file_urls
    ELSE AppendAllNew(AppendNew(file_urls, Resolve(base_url, Head(sources))),
                      base_url, Tail(sources))

\* lines 245-262: every <audio>; its own src is appended without looking
\* at the list, its <source> children only when new
RECURSIVE AudioUrls(_, _, _)
AudioUrls(elements, base_url, file_urls) ==
    IF elements = <<>> THEN file_urls
    ELSE LET e == Head(elements)
             own == IF e.src # None
                    THEN Append(file_urls, Resolve(base_url, e.src))
                    ELSE file_urls
         IN IF e.tag = "audio"
            THEN AudioUrls(Tail(elements), base_url,
                           AppendAllNew(own, base_url, e.sources))
            ELSE AudioUrls(Tail(elements), base_url, file_urls)

\* lines 264-278: every <a href=...> whose resolved href has an extension
RECURSIVE AnchorUrls(_, _, _)
AnchorUrls(elements, base_url, file_urls) ==
    IF elements = <<>> THEN file_urls
    ELSE LET e == Head(elements)
         IN IF /\ e.tag = "a"
               /\ e.src # None
               /\ HasFileExtension(Resolve(base_url, e.src))
            THEN AnchorUrls(Tail(elements), base_url,
                            AppendNew(file_urls, Resolve(base_url, e.src)))
            ELSE AnchorUrls(Tail(elements), base_url, file_urls)

\* lines 280-288: the src of every <video>; its <source> children are
\* not looked at
RECURSIVE VideoUrls(_, _, _)
VideoUrls(elements, base_url, file_urls) ==
    IF elements = <<>> THEN file_urls
    ELSE LET e == Head(elements)
         IN IF e.tag = "video" /\ e.src # None
            THEN VideoUrls(Tail(elements), base_url,
                           AppendNew(file_urls, Resolve(base_url, e.src)))
            ELSE VideoUrls(Tail(elements), base_url, file_urls)

\* lines 290-294: remove duplicates while preserving order
RECURSIVE UniqueFrom(_, _)
UniqueFrom(file_urls, unique_file_urls) ==
    IF file_urls = <<>> THEN unique_file_urls
    ELSE UniqueFrom(Tail(file_urls),
                    AppendNew(unique_file_urls, Head(file_urls)))

UniqueSkipped(file_urls) == file_urls
Unique(file_urls) == UniqueFrom(file_urls, <<>>)

\* lines 243-294
FileUrls(elements, base_url) ==
    Unique(VideoUrls(elements, base_url,
             AnchorUrls(elements, base_url,
               AudioUrls(elements, base_url, <<>>))))

\* the references lines 245-288 resolve: src and <source> children of an
\* <audio>, every href, the src of a <video>
ReferencesResolved(elements) ==
    UNION {({elements[i].src} \ {None})
             \cup (IF elements[i].tag = "audio"
                   THEN Range(elements[i].sources) ELSE {}) :
           i \in 1..Len(elements)}

\* nothing in lines 243-288 catches what urljoin raises
ParseRaises(html_content, base_url) ==
    \E src \in ReferencesResolved(html_content.elements) :
        ~StartsWithHttp(src) /\ UrlJoinRaises(base_url, src)

Audio(src, sources) == [tag |-> "audio", src |-> src, sources |-> sources]
Anchor(href)        == [tag |-> "a", src |-> href, sources |-> <<>>]
Video(src, sources) == [tag |-> "video", src |-> src, sources |-> sources]

\* A rendered page: its visible text, decode literals and elements.
Pages ==
    { [text |-> <<"Post", "at", UrlSubmit>>, atobs |-> <<>>,
       elements |-> <<>>],
      [text |-> <<"here", UrlAnswer>>, atobs |-> <<"c2VjcmV0">>,
       elements |-> <<Anchor(SrcDataRel)>>],
      [text |-> <<"here">>, atobs |-> <<>>, elements |-> <<>>],
      [text |-> <<"here">>, atobs |-> <<>>,
       elements |-> <<Anchor(SrcBadRel)>>] }

NoPage == [text |-> <<>>, atobs |-> <<>>, elements |-> <<>>]

\* the record returned at quiz_solver.py:317-323
ParseQuestion(html_content, base_url) ==
    LET text == WithDecoded(DecodedTexts(html_content.atobs),
                            html_content.text)
    IN [question_text |-> text,
        submit_url    |-> InferSubmitUrl(text),
        file_urls     |-> FileUrls(html_content.elements, base_url)]

NoQuestion == [question_text |-> <<>>, submit_url |-> None, file_urls |-> <<>>]

-----------------------------------------------------------------------------
(* _submit_answer: where the answer is posted (quiz_solver.py:565-573)     *)

SubmitUrlArg(submit_url) == HARDCODED_SUBMIT

ResolveSubmitUrl(quiz, submit_url_param) ==
    LET submit_url == SubmitUrlArg(submit_url_param)
    IN IF submit_url = None
       THEN IF HasQuizSegment(quiz) THEN QuizSub(quiz) ELSE HostSubmit(quiz)
       ELSE submit_url

-----------------------------------------------------------------------------
(* Front door (main.py:396-452) and request validation (models.py:5-21)    *)

STUDENT_SECRET == "s3cret"
STUDENT_EMAIL  == "Me@x.test"

RequestSecrets == {"s3cret", "S3CRET"}
RequestEmails  == {"Me@x.test", "me@x.test", " Me@x.test ", "you@x.test"}

\* str.lower()
Lower(s) ==
    CASE s = "Me@x.test" -> "me@x.test"
      [] s = " Me@x.test " -> " me@x.test "
      [] s = "S3CRET"    -> "s3cret"
      [] s = "Yes"       -> "yes"
      [] OTHER           -> s

\* str.strip() on the e-mail addresses and URLs of the requests
StripWs(s) ==
    CASE s = " me@x.test " -> "me@x.test"
      [] s = " Me@x.test " -> "Me@x.test"
      [] OTHER             -> s

\* QuizRequest.validate_email, models.py:11-15: v.lower().strip()
ValidateEmail(v) == StripWs(Lower(v))

SecretOkIgnoringCase(request) ==
    Lower(request.secret) = Lower(STUDENT_SECRET)
SecretOk(request) == request.secret = STUDENT_SECRET
EmailOk(request)  == Lower(request.email) = Lower(STUDENT_EMAIL)

NoRequest == [email |-> None, secret |-> None, url |-> None]
NoTask == 0 - 1

\* active_tasks[task_id] = {...} at main.py:425-429
NewTask(url, t) ==
    [url |-> url, started_at |-> t, status |-> "processing",
     error |-> None, completed_at |-> NoTask, failed_at |-> NoTask]

-----------------------------------------------------------------------------
(* Chain driver (quiz_solver.py:44-97)                                     *)

PipelineSteps == {"fetch", "parse", "download", "context", "analyze",
                  "execute", "submit"}

\* how long an awaited step may take
Durations == {0, QUIZ_TIMEOUT_SECONDS \div 2, QUIZ_TIMEOUT_SECONDS,
              QUIZ_TIMEOUT_SECONDS + 1}

\* line 60: elapsed > settings.QUIZ_TIMEOUT_SECONDS
DeadlineExceededNever(e) == FALSE
DeadlineExceededStrictOff(e) == e >= QUIZ_TIMEOUT_SECONDS
DeadlineExceeded(e) == e > QUIZ_TIMEOUT_SECONDS

\* line 54: question_count += 1
NextCountForgotten(c) == c
NextCount(c) == c + 1

NoResult == [present |-> FALSE, correct |-> FALSE, url |-> None]

\* QuizAnswerResponse(**result_data), models.py:40-44
Verdicts == [present : {TRUE}, correct : BOOLEAN, url : QuizUrls \cup {None}]

\* lines 69-84: what the loop does with a verdict
VerdictOutcomeRetryOnCorrect(r, cur) ==
    IF r.correct
    THEN IF r.url # None
         THEN [current_url |-> cur, chainState |-> "Running", pc |-> "loop"]
         ELSE [current_url |-> r.url, chainState |-> "Completed",
               pc |-> "ended"]
    ELSE IF r.url # None
         THEN [current_url |-> r.url, chainState |-> "Running", pc |-> "loop"]
         ELSE [current_url |-> cur, chainState |-> "Exhausted", pc |-> "ended"]
VerdictOutcomeStopOnIncorrect(r, cur) ==
    IF r.correct
    THEN IF r.url # None
         THEN [current_url |-> r.url, chainState |-> "Running", pc |-> "loop"]
         ELSE [current_url |-> r.url, chainState |-> "Completed",
               pc |-> "ended"]
    ELSE [current_url |-> cur, chainState |-> "Exhausted", pc |-> "ended"]
VerdictOutcome(r, cur) ==
    IF r.correct
    THEN IF r.url # None
         THEN [current_url |-> r.url, chainState |-> "Running", pc |-> "loop"]
         ELSE [current_url |-> r.url, chainState |-> "Completed",
               pc |-> "ended"]
    ELSE IF r.url # None
         THEN [current_url |-> r.url, chainState |-> "Running", pc |-> "loop"]
         ELSE [current_url |-> cur, chainState |-> "Exhausted", pc |-> "ended"]

\* lines 86-90: the handler logs and breaks
OnExceptionContinue == [chainState |-> "Running", pc |-> "loop"]
OnException == [chainState |-> "Failed", pc |-> "ended"]

\* quiz_solver.py:582-600: the http_client.post calls one _submit_answer
\* makes; both handlers re-raise, nothing loops
SubmitAttemptsRetryOnError(raised) == IF raised THEN 2 ELSE 1
SubmitAttempts(raised) == 1

\* lines 86-90 re-raise nothing: what solve_quiz_chain lets escape
PropagatedReraised(caught) == caught
Propagated(caught) == None

-----------------------------------------------------------------------------
(* Planner output and execute_solution (llm_handler.py:429-464)            *)

CodeText   == "import sys; print(6 * 7)"
DirectText == "42"
Absent     == "<absent>"

-----------------------------------------------------------------------------
(* _process_llm_response and _parse_json_response (llm_handler.py:367-427) *)
(* A response text is written pre + body + post: what surrounds the body   *)
(* decides which salvage strategy can reach it.                            *)

Text(pre, body, post) == [pre |-> pre, body |-> body, post |-> post]
NoText == Text("", Absent, "")

\* "[fence]" stands for the three backquotes of a fence marker
FenceOpen  == "[fence]json\n"
FenceClose == "\n[fence]"

Prefixes == {"", "  ", FenceOpen, "Sure: "}
Suffixes == {"", "\n", FenceClose, " ok"}

BodyCode ==
    "{\"answer_type\": \"number\", \"solution_code\": \"import sys; print(6 * 7)\"}"
BodyDirect   == "{\"answer_type\": \"number\", \"solution_code\": \"42\"}"
BodyNull     == "{\"answer_type\": \"string\", \"solution_code\": null}"
BodyNoKey    == "{\"analysis\": \"x\"}"
BodyNullType == "{\"answer_type\": null, \"solution_code\": \"42\"}"
BodyNumber   == "42"
BodyList     == "[1, {\"a\": 1}]"
BodyInner    == "{\"a\": 1}"
\* the object of BodyNoKey written with typographic quotes U+201C, U+201D
BodySmart    == "{\\u201canalysis\\u201d: \\u201cx\\u201d}"
BodyProse    == "no json here"
Bodies == {BodyCode, BodyDirect, BodyNull, BodyNoKey, BodyNullType,
           BodyNumber, BodyList, BodySmart, BodyProse}

LlmTexts == {Text(pre, body, post) :
                pre \in Prefixes, body \in Bodies, post \in Suffixes}

\* a decoded JSON value: its kind, the JSON text it was decoded from, and
\* for an object the keys the pipeline reads (Absent: no such key, None:
\* null).  A dict built by the code has json = None.
Value(kind, json, answer_type, solution_code) ==
    [kind |-> kind, json |-> json, answer_type |-> answer_type,
     solution_code |-> solution_code, solution |-> NoText]

\* json.loads raised
JsonFail == Value("fail", None, Absent, Absent)

\* json.loads(body)
Decode(body) ==
    CASE body = BodyCode     -> Value("object", body, "number", CodeText)
      [] body = BodyDirect   -> Value("object", body, "number", DirectText)
      [] body = BodyNull     -> Value("object", body, "string", None)
      [] body = BodyNoKey    -> Value("object", body, Absent, Absent)
      [] body = BodyNullType -> Value("object", body, None, DirectText)
      [] body = BodyInner    -> Value("object", body, Absent, Absent)
      [] body = BodyNumber   -> Value("number", body, Absent, Absent)
      [] body = BodyList     -> Value("list", body, Absent, Absent)
      [] OTHER               -> JsonFail

\* whitespace json.loads skips around a value
IsJsonWs(part) == part \in {"", "  ", "\n"}

\* lines 392-395: json.loads(text)
Direct(text) ==
    IF IsJsonWs(text.pre) /\ IsJsonWs(text.post) THEN Decode(text.body)
    ELSE JsonFail

\* line 398: the match of r'\{.*\}' with re.DOTALL, first brace to last
\* brace; no prefix or suffix holds a brace.  None: no match.
BraceSpan(text) ==
    IF text.body \in {BodyCode, BodyDirect, BodyNull, BodyNoKey,
                      BodyNullType, BodySmart}
    THEN text.body
    ELSE IF text.body = BodyList THEN BodyInner
    ELSE None

\* lines 399-403
Greedy(text) ==
    IF BraceSpan(text) # None THEN Decode(BraceSpan(text)) ELSE JsonFail

\* lines 405-416 on the parts: fence markers removed, ends stripped,
\* typographic quotes made plain
CleanPart(part) ==
    IF part \in {FenceOpen, FenceClose, "  ", "\n"} THEN "" ELSE part
CleanBody(body) == IF body = BodySmart THEN BodyNoKey ELSE body

\* lines 417-420
Cleanup(text) ==
    IF CleanPart(text.pre) = "" /\ CleanPart(text.post) = ""
    THEN Decode(CleanBody(text.body))
    ELSE JsonFail

\* lines 421-427
DegradedPlan(text) ==
    [kind |-> "object", json |-> None, answer_type |-> "string",
     solution_code |-> Absent, solution |-> text]

IsDegraded(plan) == plan.kind = "object" /\ plan.json = None

\* _parse_json_response: the value returned and the decodes attempted
ParseJsonResponseCleanupFirst(text) ==
    IF Direct(text).kind # "fail"
    THEN [value |-> Direct(text), tried |-> <<"direct">>]
    ELSE IF Cleanup(text).kind # "fail"
    THEN [value |-> Cleanup(text), tried |-> <<"direct", "cleanup">>]
    ELSE IF Greedy(text).kind # "fail"
    THEN [value |-> Greedy(text),
          tried |-> <<"direct", "cleanup", "greedy">>]
    ELSE [value |-> DegradedPlan(text),
          tried |-> <<"direct", "cleanup", "greedy">>]
ParseJsonResponse(text) ==
    LET matched == BraceSpan(text) # None
        upto2 == IF matched THEN <<"direct", "greedy">> ELSE <<"direct">>
    IN IF Direct(text).kind # "fail"
       THEN [value |-> Direct(text), tried |-> <<"direct">>]
       ELSE IF Greedy(text).kind # "fail"
       THEN [value |-> Greedy(text), tried |-> upto2]
       ELSE IF Cleanup(text).kind # "fail"
       THEN [value |-> Cleanup(text), tried |-> Append(upto2, "cleanup")]
       ELSE [value |-> DegradedPlan(text),
             tried |-> Append(upto2, "cleanup")]

\* line 371: llm_response.strip()
StripText(text) ==
    Text(IF text.pre = "  " THEN "" ELSE text.pre, text.body,
         IF text.post = "\n" THEN "" ELSE text.post)

\* lines 373-376: a leading fence loses its backquotes and its first
\* line; trailing backquotes go with it, the line break before them stays
Unfence(cleaned) ==
    IF cleaned.pre = FenceOpen
    THEN Text("", cleaned.body,
              IF cleaned.post = FenceClose THEN "\n" ELSE cleaned.post)
    ELSE cleaned

\* lines 370-378; the handler of lines 379-387 is not reached for a string
ProcessLlmResponse(llm_response) ==
    ParseJsonResponse(Unfence(StripText(llm_response))).value

\* the contents the analysis call is answered with in the chain: generated
\* code, a literal, "solution_code": null, prose, and a bare number
ChainResponses ==
    {Text("", body, "") :
        body \in {BodyCode, BodyDirect, BodyNull, BodyProse, BodyNumber}}

\* the plans analyze_quiz returns
Plans == {ProcessLlmResponse(r) : r \in ChainResponses}

NoPlan == Value("none", None, Absent, Absent)

\* solution.get('answer_type', 'string')
AnswerType(plan) ==
    IF plan.answer_type = Absent THEN "string" ELSE plan.answer_type

\* solution.get('solution_code', '')
SolutionCode(plan) ==
    IF plan.solution_code = Absent THEN "" ELSE plan.solution_code

\* the keywords of line 439
Markers == {"import", "def ", "for ", "while ", "="}

\* solution_code values that are run as scripts, and values that are not
\* ("format" and "default" hold "for" and "def" without the blank)
ScriptCodes == {CodeText, "x = 1", "def f(): pass",
                "for i in range(3): print(i)", "while True: pass",
                "important"}
DirectAnswers == {DirectText, "1,234.5", "1,234", "Yes", "no", "1", " yes",
                  "{\"a\": 1}", "format", "default", "abc", "1.2.3", " 7 ",
                  "", "true"}

\* keyword in solution_code
Contains(code, keyword) ==
    \/ keyword = "import" /\ code \in {CodeText, "important"}
    \/ keyword = "def "   /\ code = "def f(): pass"
    \/ keyword = "for "   /\ code = "for i in range(3): print(i)"
    \/ keyword = "while " /\ code = "while True: pass"
    \/ keyword = "="      /\ code = "x = 1"

\* any(keyword in solution_code for keyword in
\*     ['import', 'def ', 'for ', 'while ', '='])
ContainsMarkerImportOnly(code) == Contains(code, "import")
ContainsMarker(code) == \E keyword \in Markers : Contains(code, keyword)

NoAnswer == [type |-> None, value |-> None]

\* a Python value: its type and its repr
Typed(type, value) == [type |-> type, value |-> value]

\* str(answer).replace(',', '').strip()
NoCommas(raw) ==
    CASE raw = "1,234.5" -> "1234.5"
      [] raw = "1,234"   -> "1234"
      [] raw = " 7 "     -> "7"
      [] raw = " yes"    -> "yes"
      [] OTHER              -> raw
\* the same without the replace
JustStripped(raw) ==
    CASE raw = " 7 "  -> "7"
      [] raw = " yes" -> "yes"
      [] OTHER           -> raw

\* '.' in answer_str
HasDot(answer_str) == answer_str \in {"1234.5", "1,234.5", "1.2.3"}

\* float(answer_str) and int(answer_str); None when they raise ValueError
FloatOf(answer_str) == IF answer_str = "1234.5" THEN "1234.5" ELSE None
IntOf(answer_str) ==
    IF answer_str \in {"42", "1234", "1", "7"} THEN answer_str ELSE None

\* json.loads raised
JsonError == Typed("error", "JSONDecodeError")

\* json.loads(answer)
JsonLoads(raw) ==
    CASE raw \in {"42", "1"}  -> Typed("int", raw)
      [] raw = " 7 "          -> Typed("int", "7")
      [] raw = "true"         -> Typed("bool", "True")
      [] raw = "{\"a\": 1}"   -> Typed("dict", raw)
      [] OTHER                   -> JsonError

\* lines 444-464: the direct answer under answer_type
CoerceNumber(answer_str, raw) ==
    IF HasDot(answer_str)
    THEN IF FloatOf(answer_str) # None
         THEN Typed("float", FloatOf(answer_str))
         ELSE Typed("str", raw)
    ELSE IF IntOf(answer_str) # None
         THEN Typed("int", IntOf(answer_str))
         ELSE Typed("str", raw)

CoerceCommasKept(answer_type, raw) ==
    IF answer_type = "number"
    THEN CoerceNumber(JustStripped(raw), raw)
    ELSE IF answer_type = "boolean"
    THEN Typed("bool", IF Lower(raw) \in {"true", "yes", "1"}
                       THEN "True" ELSE "False")
    ELSE IF answer_type = "object"
    THEN IF JsonLoads(raw) # JsonError THEN JsonLoads(raw)
         ELSE Typed("str", raw)
    ELSE Typed("str", raw)
Coerce(answer_type, raw) ==
    IF answer_type = "number"
    THEN CoerceNumber(NoCommas(raw), raw)
    ELSE IF answer_type = "boolean"
    THEN Typed("bool", IF Lower(raw) \in {"true", "yes", "1"}
                       THEN "True" ELSE "False")
    ELSE IF answer_type = "object"
    THEN IF JsonLoads(raw) # JsonError THEN JsonLoads(raw)
         ELSE Typed("str", raw)
    ELSE Typed("str", raw)

\* completed.stdout of the generated script, and completed.stdout.strip()
Stdouts == {"42\n"}
Strip(out) ==
    CASE out = "42\n"           -> "42"
      [] out = "  hello world\n" -> "hello world"
      [] OTHER                  -> out

-----------------------------------------------------------------------------
(* Actions of Spec                                                         *)

\* main.py:396-452 handle_quiz
HandleQuiz ==
    /\ pc = "idle"
    /\ \E secret \in RequestSecrets, rawEmail \in RequestEmails,
          url \in QuizUrls :
         LET request == [email |-> ValidateEmail(rawEmail),
                         secret |-> secret, url |-> url]
         IN IF ~SecretOk(request) \/ ~EmailOk(request)
            THEN /\ response' = 403
                 /\ UNCHANGED <<active_tasks, task_id, req, pc>>
            ELSE /\ response' = 200
                 /\ task_id' = now
                 /\ active_tasks' =
                        (now :> NewTask(url, now)) @@ active_tasks
                 /\ req' = request
                 /\ pc' = "scheduled"
    /\ UNCHANGED <<now, start_time, current_url, question_count, elapsed,
                   chainState, error, pipeVars, histVars, parseVars, dlVars, salvVars, execVars, auxVars>>

\* main.py:466-476 and quiz_solver.py:44-51
BackgroundStart ==
    /\ pc = "scheduled"
    /\ active_tasks' =
           IF task_id \in DOMAIN active_tasks
           THEN [active_tasks EXCEPT ![task_id].status = "solving"]
           ELSE active_tasks
    /\ start_time' = now
    /\ current_url' = req.url
    /\ question_count' = 0
    /\ chainState' = "Running"
    /\ pc' = "loop"
    /\ UNCHANGED <<now, task_id, response, req, elapsed, error, pipeVars,
                   histVars, parseVars, dlVars, salvVars, execVars, auxVars>>

\* quiz_solver.py:53-62, deadline passed
IterationTimeout ==
    /\ pc = "loop"
    /\ current_url # None
    /\ DeadlineExceeded(now - start_time)
    /\ question_count' = NextCount(question_count)
    /\ elapsed' = now - start_time
    /\ chainState' = "TimedOut"
    /\ pc' = "ended"
    /\ UNCHANGED <<frontVars, start_time, current_url, error, pipeVars,
                   histVars, parseVars, dlVars, salvVars, execVars, auxVars>>

\* quiz_solver.py:53-67, the pipeline is entered
IterationStart ==
    /\ pc = "loop"
    /\ current_url # None
    /\ ~DeadlineExceeded(now - start_time)
    /\ question_count' = NextCount(question_count)
    /\ elapsed' = now - start_time
    /\ quiz_url' = current_url
    /\ pipelines_started' = pipelines_started + 1
    /\ pc' = "fetch"
    \* a new frame of _solve_single_question
    /\ page_content' = NoPage
    /\ question_data' = NoQuestion
    /\ question_details' = None
    /\ solution' = NoPlan
    /\ answer' = NoAnswer
    /\ UNCHANGED <<frontVars, start_time, current_url, chainState, error,
                   result, posts, post_url, all_correct, parseVars, dlVars, salvVars, execVars, auxVars>>

\* an awaited step of the pipeline raises; quiz_solver.py:86-90
Raise(step, msg) ==
    /\ pc = step
    /\ \E d \in Durations :
         /\ now + d <= MaxNow
         /\ now' = now + d
    /\ error' = msg
    /\ chainState' = OnException.chainState
    /\ pc' = OnException.pc
    /\ UNCHANGED <<active_tasks, task_id, response, req, start_time,
                   current_url, question_count, elapsed, pipeVars, histVars,
                   parseVars, dlVars, salvVars, execVars, auxVars>>

\* quiz_solver.py:109 and 148-217, taking one of the times in D
FetchPageIn(D) ==
    /\ pc = "fetch"
    /\ \E d \in D, page \in Pages :
         /\ now + d <= MaxNow
         /\ now' = now + d
         /\ page_content' = page
    /\ pc' = "parse"
    /\ UNCHANGED <<active_tasks, task_id, response, req, start_time,
                   current_url, question_count, elapsed, chainState, error,
                   quiz_url, question_data, question_details, solution,
                   answer, result, histVars, parseVars, dlVars, salvVars, execVars, auxVars>>

FetchPage == FetchPageIn(Durations)

FetchRaises == Raise("fetch", "page fetch failed")

\* quiz_solver.py:116: if question_data.get('file_urls')
AfterParseAlwaysDownload(record) == "download"
AfterParse(record) ==
    IF record.file_urls # <<>> THEN "download" ELSE "context"

\* quiz_solver.py:112-116
ParsePage ==
    /\ pc = "parse"
    /\ ~ParseRaises(page_content, quiz_url)
    /\ question_data' = ParseQuestion(page_content, quiz_url)
    /\ pc' = AfterParse(question_data')
    /\ UNCHANGED <<frontVars, start_time, current_url, question_count,
                   elapsed, chainState, error, quiz_url, page_content,
                   question_details, solution, answer, result, histVars,
                   parseVars, dlVars, salvVars, execVars, auxVars>>

\* quiz_solver.py:264-269 and 86-90: urljoin raises in _parse_question
ParsePageRaises ==
    /\ pc = "parse"
    /\ ParseRaises(page_content, quiz_url)
    /\ error' = "Invalid IPv6 URL"
    /\ chainState' = OnException.chainState
    /\ pc' = OnException.pc
    /\ UNCHANGED <<frontVars, start_time, current_url, question_count,
                   elapsed, pipeVars, histVars, parseVars, dlVars, salvVars,
                   execVars, auxVars>>

\* quiz_solver.py:116-122: download_files returns, it never raises
DownloadResources ==
    /\ pc = "download"
    /\ \E d \in Durations :
         /\ now + d <= MaxNow
         /\ now' = now + d
    /\ pc' = "context"
    /\ UNCHANGED <<active_tasks, task_id, response, req, start_time,
                   current_url, question_count, elapsed, chainState, error,
                   pipeVars, histVars, parseVars, dlVars, salvVars, execVars, auxVars>>

\* llm_handler.py:86-90 and 163-193: the context call, failure absorbed
ContextCall ==
    /\ pc = "context"
    /\ \E d \in Durations, out \in {"context text", None} :
         /\ now + d <= MaxNow
         /\ now' = now + d
         /\ question_details' = out
    /\ pc' = "analyze"
    /\ UNCHANGED <<active_tasks, task_id, response, req, start_time,
                   current_url, question_count, elapsed, chainState, error,
                   quiz_url, page_content, question_data, solution, answer,
                   result, histVars, parseVars, dlVars, salvVars, execVars, auxVars>>

\* llm_handler.py:92-93 and 320-365: the analysis call
AnalysisCall ==
    /\ pc = "analyze"
    /\ \E d \in Durations, llm_response \in ChainResponses :
         /\ now + d <= MaxNow
         /\ now' = now + d
         /\ solution' = ProcessLlmResponse(llm_response)
    /\ pc' = "execute"
    /\ UNCHANGED <<active_tasks, task_id, response, req, start_time,
                   current_url, question_count, elapsed, chainState, error,
                   quiz_url, page_content, question_data, question_details,
                   answer, result, histVars, parseVars, dlVars, salvVars, execVars, auxVars>>

AnalysisRaises == Raise("analyze", "LLM call failed")

\* llm_handler.py:436-464, no subprocess
ExecuteDirect ==
    /\ pc = "execute"
    /\ solution.kind = "object"
    /\ SolutionCode(solution) # None
    /\ ~ContainsMarker(SolutionCode(solution))
    /\ answer' = Coerce(AnswerType(solution), SolutionCode(solution))
    /\ pc' = "submit"
    /\ UNCHANGED <<frontVars, start_time, current_url, question_count,
                   elapsed, chainState, error, quiz_url, page_content,
                   question_data, question_details, solution, result,
                   histVars, parseVars, dlVars, salvVars, execVars, auxVars>>

\* llm_handler.py:439-440 and 495-513, exit status 0
ExecuteCode ==
    /\ pc = "execute"
    /\ solution.kind = "object"
    /\ SolutionCode(solution) # None
    /\ ContainsMarker(SolutionCode(solution))
    /\ \E d \in Durations, out \in Stdouts :
         /\ now + d <= MaxNow
         /\ now' = now + d
         /\ answer' = [type |-> "str", value |-> Strip(out)]
    /\ pc' = "submit"
    /\ UNCHANGED <<active_tasks, task_id, response, req, start_time,
                   current_url, question_count, elapsed, chainState, error,
                   quiz_url, page_content, question_data, question_details,
                   solution, result, histVars, parseVars, dlVars, salvVars, execVars, auxVars>>

\* llm_handler.py:504-507 (exit status 1) and :497-502 (TimeoutExpired)
ExecuteCodeFails ==
    /\ solution.kind = "object"
    /\ SolutionCode(solution) # None
    /\ ContainsMarker(SolutionCode(solution))
    /\ \E msg \in {"Subprocess execution failed", "subprocess timed out"} :
         Raise("execute", msg)

\* llm_handler.py:439: `keyword in None` is a TypeError
ExecuteNullCode ==
    /\ solution.kind = "object"
    /\ SolutionCode(solution) = None
    /\ Raise("execute", "argument of type 'NoneType' is not iterable")

\* llm_handler.py:436: a plan that is not a dict has no get
ExecuteNonObject ==
    /\ solution.kind # "object"
    /\ Raise("execute", "object has no attribute 'get'")

\* quiz_solver.py:138-144 and 555-592, then lines 69-84 of the loop
SubmitAnswerUpTo(limit) ==
    /\ pc = "submit"
    /\ \E d \in Durations, r \in Verdicts :
         /\ now + d <= MaxNow
         /\ r.url # None => question_count < limit
         /\ now' = now + d
         /\ result' = r
         /\ all_correct' = (all_correct /\ r.correct)
         /\ LET o == VerdictOutcome(r, current_url)
            IN /\ current_url' = o.current_url
               /\ chainState' = o.chainState
               /\ pc' = o.pc
    /\ posts' = posts + SubmitAttempts(FALSE)
    /\ post_url' = ResolveSubmitUrl(quiz_url, question_data.submit_url)
    /\ UNCHANGED <<active_tasks, task_id, response, req, start_time,
                   question_count, elapsed, error, quiz_url, page_content,
                   question_data, question_details, solution, answer,
                   pipelines_started, parseVars, dlVars, salvVars, execVars, auxVars>>

SubmitAnswer == SubmitAnswerUpTo(MaxQuestions)

\* quiz_solver.py:589-600: HTTP error status, transport failure, bad body
SubmitRaises ==
    /\ pc = "submit"
    /\ \E d \in Durations :
         /\ now + d <= MaxNow
         /\ now' = now + d
    /\ posts' = posts + SubmitAttempts(TRUE)
    /\ post_url' = ResolveSubmitUrl(quiz_url, question_data.submit_url)
    /\ error' = "submit failed"
    /\ chainState' = OnException.chainState
    /\ pc' = OnException.pc
    /\ UNCHANGED <<active_tasks, task_id, response, req, start_time,
                   current_url, question_count, elapsed, pipeVars,
                   pipelines_started, all_correct, parseVars, dlVars, salvVars, execVars, auxVars>>

\* quiz_solver.py:92-97, main.py:478-496
BackgroundFinish ==
    /\ pc = "ended"
    /\ LET e == Propagated(error)
       IN active_tasks' =
            IF task_id \notin DOMAIN active_tasks THEN active_tasks
            ELSE IF e = None
            THEN [active_tasks EXCEPT ![task_id].status = "completed",
                                      ![task_id].completed_at = now]
            ELSE [active_tasks EXCEPT ![task_id].status = "failed",
                                      ![task_id].error = e,
                                      ![task_id].failed_at = now]
    /\ pc' = "retained"
    /\ UNCHANGED <<now, task_id, response, req, start_time, current_url,
                   question_count, elapsed, chainState, error, pipeVars,
                   histVars, parseVars, dlVars, salvVars, execVars, auxVars>>

\* main.py:501, asyncio.sleep(300)
RetentionDelay == 300

\* main.py:497-503: close returns, the coroutine sleeps, then drops the
\* entry
BackgroundCleanup ==
    /\ pc = "retained"
    /\ now' = now + RetentionDelay
    /\ active_tasks' =
           [t \in DOMAIN active_tasks \ {task_id} |-> active_tasks[t]]
    /\ pc' = "done"
    /\ UNCHANGED <<task_id, response, req, start_time, current_url,
                   question_count, elapsed, chainState, error, pipeVars,
                   histVars, parseVars, dlVars, salvVars, execVars, auxVars>>

\* main.py:498: solver.close() raises inside the finally block; the
\* exception leaves solve_quiz_background before the sleep and the del
BackgroundCleanupRaises ==
    /\ pc = "retained"
    /\ pc' = "aborted"
    /\ UNCHANGED <<now, active_tasks, task_id, response, req, start_time,
                   current_url, question_count, elapsed, chainState, error,
                   pipeVars, histVars, parseVars, dlVars, salvVars, execVars,
                   auxVars>>

-----------------------------------------------------------------------------
(* download_files (quiz_solver.py:325-445)                                 *)

DlCsv   == "https://h.test/data.csv"
DlPdf   == "https://h.test/doc.pdf"
DlJson  == "https://h.test/info.json"
DlAudio == "https://h.test/clip.mp3"
DlOther == "https://h.test/blob"
DlUrls  == {DlCsv, DlPdf, DlJson, DlAudio, DlOther}
\* an upper-case extension, and an audio extension that is not at the end
DlUpperCsv == "https://h.test/DATA.CSV"
DlAudioDir == "https://h.test/a.mp3/notes"

ContentTypes == {"text/csv", "application/pdf", "application/json",
                 "audio/mpeg", "application/octet-stream"}
\* a header with a parameter; "" is what line 349 reads when there is none
MoreContentTypes == {"text/csv; charset=utf-8", ""}

\* any(ext in url.lower() for ext in ['.opus', '.mp3', '.wav', ...])
UrlHasAudioExt(u) == u \in {DlAudio, DlAudioDir}
\* url.lower().endswith(ext)
UrlEndsWith(u, ext) ==
    \/ ext = ".csv"  /\ u \in {DlCsv, DlUpperCsv}
    \/ ext = ".pdf"  /\ u = DlPdf
    \/ ext = ".json" /\ u = DlJson
    \/ ext = ".mp3"  /\ u = DlAudio
\* word in content_type
CtHas(ct, word) ==
    \/ word = "csv"   /\ ct \in {"text/csv", "text/csv; charset=utf-8"}
    \/ word = "pdf"   /\ ct = "application/pdf"
    \/ word = "json"  /\ ct = "application/json"
    \/ word = "audio" /\ ct = "audio/mpeg"

\* the payloads stored in files[url]; attempts = 0 stands for "no such key"
Payload(type, err) == [type |-> type, error |-> err, attempts |-> 0]

\* lines 361, 373, 389, 399, 412: the branch a 200 response is handled by,
\* audio by the URL alone, then csv, pdf, json by content type or extension
ClassifiedType(u, ct) ==
    IF UrlHasAudioExt(u) THEN "audio"
    ELSE IF CtHas(ct, "csv") \/ UrlEndsWith(u, ".csv") THEN "csv"
    ELSE IF CtHas(ct, "pdf") \/ UrlEndsWith(u, ".pdf") THEN "pdf"
    ELSE IF CtHas(ct, "json") \/ UrlEndsWith(u, ".json") THEN "json"
    ELSE "binary"

\* lines 360-418: the payload of a 200 response with a non-empty body;
\* wellFormed says whether the body parses as the type it is taken for.
\* Line 391 calls self.parse_pdf, which QuizSolver does not define (the
\* method is _parse_pdf), so the pdf branch always lands in its handler.
ClassifyErrorsSwallowed(u, ct, wellFormed) ==
    Payload(ClassifiedType(u, ct), None)
Classify(u, ct, wellFormed) ==
    LET t == ClassifiedType(u, ct) IN
    IF t = "audio" THEN Payload("audio", None)
    ELSE IF t = "csv"
    THEN IF wellFormed THEN Payload("csv", None)
         ELSE Payload("csv", "csv parse error")
    ELSE IF t = "pdf"
    THEN Payload("pdf", "no attribute 'parse_pdf'")
    ELSE IF t = "json"
    THEN IF wellFormed THEN Payload("json", None)
         ELSE Payload("json", "json parse error")
    ELSE Payload("binary", None)

\* lines 331-334: range(max_retries + 1)
Attempts == max_retries + 1

\* lines 436-442
FailedPayloadOffByOne(last_error) ==
    [type |-> "error", error |-> last_error, attempts |-> max_retries]
FailedPayload(last_error) ==
    [type |-> "error", error |-> last_error, attempts |-> max_retries + 1]

\* what one GET can come back with: an exception out of http_client.get
\* (exc), or a response with a status code and a body of body_len bytes
Responses ==
    [exc : {None, "Timeout", "ConnectError"}, status : {200, 500},
     body_len : {0, 1}]

\* lines 339-356 and 423-433: the last_error an attempt leaves behind, None
\* when the attempt goes on to classify the body
AttemptErrorEmptyAccepted(resp) ==
    IF resp.exc = "Timeout" THEN "Timeout"
    ELSE IF resp.exc # None THEN resp.exc
    ELSE IF resp.status # 200 THEN "HTTP 500"
    ELSE None
AttemptError(resp) ==
    IF resp.exc = "Timeout" THEN "Timeout"
    ELSE IF resp.exc # None THEN resp.exc
    ELSE IF resp.status # 200 THEN "HTTP 500"
    ELSE IF resp.body_len = 0 THEN "Empty response"
    ELSE None

\* the lists of at most n distinct elements of S
DistinctSeqs(S, n) ==
    {q \in UNION {[1..k -> S] : k \in 0..n} :
        \A a, b \in 1..Len(q) : a # b => q[a] # q[b]}

EmptyFiles == [u \in {} |-> Payload("binary", None)]
NoHist ==
    [gets |-> 0, fails |-> 0, last |-> None, good |-> 0, kind |-> None,
     wellFormed |-> FALSE]
EmptyHist  == [u \in {} |-> NoHist]

\* lines 330 and 444-445: after the URL at position i of n the for loop
\* takes the next URL, whether or not this one succeeded, or returns files
AfterUrlAbortOnFailure(i, n, success) ==
    IF i < n /\ success THEN [i |-> i + 1, pc |-> "get"]
    ELSE [i |-> i, pc |-> "done"]
AfterUrl(i, n, success) ==
    IF i < n THEN [i |-> i + 1, pc |-> "get"]
    ELSE [i |-> i, pc |-> "done"]

\* move to the next URL of the list, or finish (lines 330-334, 444-445)
DlAdvance(success) ==
    /\ dl_attempt' = 0
    /\ dl_success' = FALSE
    /\ dl_last_error' = None
    /\ dl_i' = AfterUrl(dl_i, Len(dl_urls), success).i
    /\ dl_pc' = AfterUrl(dl_i, Len(dl_urls), success).pc

\* what the server saw for u: GETs issued, GETs the code took as failed,
\* the outcome of the latest GET ("ok" or its error), the GETs it answered
\* 200 with a non-empty body, and for the latest GET the branch its content
\* type selects and whether its body was well formed
DlNoteAttempt(u, kind, resp, ct, wellFormed) ==
    LET h == IF u \in DOMAIN dl_hist THEN dl_hist[u] ELSE NoHist
        served == resp.exc = None /\ resp.status = 200 /\ resp.body_len > 0
        h2 == [gets  |-> h.gets + 1,
               fails |-> h.fails + (IF kind = "ok" THEN 0 ELSE 1),
               last  |-> kind,
               good  |-> h.good + (IF served THEN 1 ELSE 0),
               kind  |-> IF served THEN ClassifiedType(u, ct) ELSE None,
               wellFormed |-> served /\ wellFormed]
    IN dl_hist' = (u :> h2) @@ [v \in DOMAIN dl_hist \ {u} |-> dl_hist[v]]

\* lines 342-356 and 423-433: whether the failed attempt awaits
\* asyncio.sleep before the loop goes on.  A non-200 or empty answer
\* always sleeps; an exception sleeps only if attempt < max_retries
SleepsAfter(resp, attempt) == resp.exc = None \/ attempt < max_retries

\* one GET that fails: non-200, empty body, timeout or transport error.
\* last_error is set and the coroutine sleeps, or, after an exception in
\* the last attempt, the failure record is stored at once
DlAttemptFails ==
    /\ dl_pc = "get"
    /\ LET u == dl_urls[dl_i]
       IN \E resp \in Responses :
            LET e == AttemptError(resp) IN
            /\ e # None
            /\ DlNoteAttempt(u, e, resp, "", FALSE)
            /\ IF SleepsAfter(resp, dl_attempt)
               THEN /\ dl_last_error' = e
                    /\ dl_pc' = "sleep"
                    /\ UNCHANGED <<dl_i, dl_attempt, dl_success, dl_files>>
               ELSE /\ dl_files' = (u :> FailedPayload(e)) @@ dl_files
                    /\ DlAdvance(FALSE)
    /\ UNCHANGED <<dl_urls, frontVars, chainVars, pipeVars, histVars,
                   parseVars, salvVars, execVars, auxVars>>

\* asyncio.sleep of lines 345, 355, 427, 433 is over: the next attempt, or
\* after the last one the failure record (lines 435-442)
DlSleepOver ==
    /\ dl_pc = "sleep"
    /\ IF dl_attempt + 1 < Attempts
       THEN /\ dl_attempt' = dl_attempt + 1
            /\ dl_pc' = "get"
            /\ UNCHANGED <<dl_i, dl_success, dl_last_error, dl_files>>
       ELSE /\ dl_files' = (dl_urls[dl_i] :> FailedPayload(dl_last_error))
                              @@ dl_files
            /\ DlAdvance(FALSE)
    /\ UNCHANGED <<dl_urls, dl_hist, frontVars, chainVars, pipeVars,
                   histVars, parseVars, salvVars, execVars, auxVars>>

\* one GET whose response passes the checks of lines 342-356: the body is
\* classified and stored, success = True, break (lines 358-421)
DlAttemptSucceeds ==
    /\ dl_pc = "get"
    /\ LET u == dl_urls[dl_i]
       IN \E resp \in Responses, ct \in ContentTypes, wellFormed \in BOOLEAN :
            /\ AttemptError(resp) = None
            /\ DlNoteAttempt(u, "ok", resp, ct, wellFormed)
            /\ dl_files' = (u :> Classify(u, ct, wellFormed)) @@ dl_files
            /\ DlAdvance(TRUE)
    /\ UNCHANGED <<dl_urls, frontVars, chainVars, pipeVars, histVars,
                   parseVars, salvVars, execVars, auxVars>>

-----------------------------------------------------------------------------
(* Initial states and specifications                                       *)

ChainInit ==
    /\ now = 0
    /\ active_tasks = [t \in {} |-> NewTask(None, 0)]
    /\ task_id = NoTask
    /\ response = 0
    /\ req = NoRequest
    /\ pc = "idle"
    /\ start_time = 0
    /\ current_url = None
    /\ question_count = 0
    /\ elapsed = 0
    /\ chainState = "Idle"
    /\ error = None
    /\ quiz_url = None
    /\ page_content = NoPage
    /\ question_data = NoQuestion
    /\ question_details = None
    /\ solution = NoPlan
    /\ answer = NoAnswer
    /\ result = NoResult
    /\ pipelines_started = 0
    /\ posts = 0
    /\ post_url = None
    /\ all_correct = TRUE

NoHtml == [atobs |-> <<>>, elements |-> <<>>]

ParseIdle ==
    /\ p_text = <<>>
    /\ p_html = NoHtml
    /\ p_base = None
    /\ p_record = NoQuestion
    /\ p_done = FALSE
    /\ p_error = None

DlIdle ==
    /\ dl_urls = <<>>
    /\ dl_i = 1
    /\ dl_attempt = 0
    /\ dl_success = FALSE
    /\ dl_last_error = None
    /\ dl_files = EmptyFiles
    /\ dl_hist = EmptyHist
    /\ dl_pc = "idle"

\* ---- outcomes of the subprocess path (llm_handler.py:489-520)
ExecStdouts == {"42\n", "  hello world\n", ""}

\* how subprocess.run ends: the child exits with a return code, the
\* 30-second timeout expires, or the child cannot be started
Runs ==
    {[kind |-> "exit", code |-> 0, stdout |-> out] : out \in ExecStdouts}
    \cup {[kind |-> "exit", code |-> 1, stdout |-> ""],
          [kind |-> "timeout", code |-> 0, stdout |-> ""],
          [kind |-> "oserror", code |-> 0, stdout |-> ""]}
NoRun == [kind |-> "none", code |-> 0, stdout |-> ""]

Returned(value) == [kind |-> "answer", answer |-> value, error |-> None]
Raised(msg)     == [kind |-> "raised", answer |-> NoAnswer, error |-> msg]
NoOutcome       == [kind |-> "none", answer |-> NoAnswer, error |-> None]

\* lines 495-513: what the try block leaves the function with
RunResultAsNumber(run) ==
    IF run.kind = "exit" /\ run.code = 0
    THEN Returned(CoerceNumber(NoCommas(Strip(run.stdout)),
                               Strip(run.stdout)))
    ELSE IF run.kind = "exit" THEN Raised("Subprocess execution failed")
    ELSE IF run.kind = "timeout" THEN Raised("TimeoutExpired")
    ELSE Raised("OSError")
RunResultIgnoresStatus(run) ==
    IF run.kind = "exit" THEN Returned(Typed("str", Strip(run.stdout)))
    ELSE IF run.kind = "timeout" THEN Raised("TimeoutExpired")
    ELSE Raised("OSError")
RunResult(run) ==
    IF run.kind = "exit" /\ run.code = 0
    THEN Returned(Typed("str", Strip(run.stdout)))
    ELSE IF run.kind = "exit" THEN Raised("Subprocess execution failed")
    ELSE IF run.kind = "timeout" THEN Raised("TimeoutExpired")
    ELSE Raised("OSError")

\* lines 515-520: os.unlink inside try/except: pass leaves the result as is
AfterUnlink(outcome, unlinked) == outcome

ExecIdle ==
    /\ e_plan = [answer_type |-> Absent, solution_code |-> Absent,
                 final_answer |-> None]
    /\ e_pc = "idle"
    /\ e_file = "none"
    /\ e_runs = 0
    /\ e_run = NoRun
    /\ e_unlink = "none"
    /\ e_out = NoOutcome

\* ---- the /quiz endpoint on every request body
MaxRequests == 2
MaxClock == 2

\* an address without "@", and a URL that is not http(s)
RawEmails == RequestEmails \cup {"me.x.test"}
RawUrls == {UrlQuiz1, "ftp://x.test/quiz-1"}

\* models.py:13, '@' not in v
HasAt(v) == v # "me.x.test"
\* models.py:19, v.startswith(('http://', 'https://'))
StartsWithScheme(v) == v # "ftp://x.test/quiz-1"

\* QuizRequest(**body): the validated request, or NoRequest when a
\* validator raises; main.py:522-532 answers that with status 400
QuizRequest(body) ==
    IF HasAt(body.email) /\ StartsWithScheme(body.url)
    THEN [email |-> ValidateEmail(body.email), secret |-> body.secret,
          url |-> StripWs(body.url)]
    ELSE NoRequest

FrontIdle ==
    /\ f_now = 0
    /\ f_request = NoRequest
    /\ f_response = 0
    /\ f_tasks = [t \in {} |-> NewTask(None, 0)]
    /\ f_scheduled = <<>>
    /\ f_count = 0

\* ---- the shared log
\* main.py:57, deque(maxlen=200)
maxlen == 200
MaxLogCalls == 202

\* main.py:63-68; the timestamp is the call's position in time
LogEntry(n, message) == [timestamp |-> n, message |-> message]

\* deque.append on a deque with maxlen: at capacity the oldest entry goes
AppendedUnbounded(log, entry) == Append(log, entry)
Appended(log, entry) ==
    IF Len(log) = maxlen THEN Append(Tail(log), entry)
    ELSE Append(log, entry)

\* main.py:373-374, logs_list[-limit:]; -0 is 0, the whole list
LastOf(log, limit) ==
    IF limit = 0 \/ limit >= Len(log) THEN log
    ELSE SubSeq(log, Len(log) - limit + 1, Len(log))

LogIdle ==
    /\ quiz_logs = <<>>
    /\ l_calls = 0
    /\ l_view = <<>>

\* ---- the event loop
LoopChains == {1, 2}
\* most questions a chain on the event loop attempts
MaxLoopQuestions == 2

\* llm_handler.py:500, timeout=30
SubprocessTimeout == 30

\* quiz_solver.py:469, timeout=30 of the ffmpeg call
FfmpegTimeout == 30

\* how long the context call or the POST takes
IoDurations == {0, QUIZ_TIMEOUT_SECONDS \div 2 - PageWait}
\* how long the generated script runs
SubprocessDurations == {0, SubprocessTimeout}
\* the GET of an audio file is answered at once; ffmpeg runs to its timeout
DownloadDurations == {0}
TranscribeDurations == {FfmpegTimeout}

\* the awaited calls a question goes through before execute_solution, in
\* order: page.goto (quiz_solver.py:173), wait_for_timeout(3000) (198),
\* wait_for_timeout(1000) (202), the context POST (llm_handler.py:163) and
\* the analysis POST (llm_handler.py:320)
PageCalls == <<"goto", "wait3000", "wait1000", "context", "analysis">>

\* the time call k takes; the page loads at once and the analysis call
\* is answered at once
CallDurations(k) ==
    IF PageCalls[k] = "wait3000" THEN {3}
    ELSE IF PageCalls[k] = "wait1000" THEN {1}
    ELSE IF PageCalls[k] = "context" THEN IoDurations
    ELSE {0}

\* the locals of one solve_quiz_chain; call is the awaited call in flight,
\* own is the time the chain's own awaited calls and its own subprocesses
\* took since start_time
NoChain ==
    [pc |-> "none", call |-> 0, start_time |-> 0, due |-> 0, own |-> 0,
     question_count |-> 0, elapsed |-> 0, own_elapsed |-> 0,
     chainState |-> "Idle"]

LoopIdle ==
    /\ lp_now = 0
    /\ lp_blocked = 0
    /\ lp_chain = [c \in LoopChains |-> NoChain]
    /\ lp_acks = 0

\* ---- the planner
\* the message content of the context call's response: a text, a text
\* with surrounding whitespace, nothing
ContextContents == {"submit at /submit", " submit at /submit\n", ""}

\* llm_handler.py:187: content.strip()
StripContent(content) ==
    IF content = " submit at /submit\n" THEN "submit at /submit" ELSE content

\* json.dumps(question_details, indent=2) of a string
JsonDumps(s) ==
    CASE s = "submit at /submit" -> "\"submit at /submit\""
      [] s = ""                  -> "\"\""
      [] OTHER                   -> s

\* llm_handler.py:200-318: the parts of the prompt that depend on the
\* arguments; line 216 writes "N/A" for a falsy question_details
BuildAnalysisPromptWithoutDetails(record, details, url) ==
    [question_text |-> record.question_text,
     question_url |-> url,
     question_details |-> "N/A"]
BuildAnalysisPrompt(record, details, url) ==
    [question_text |-> record.question_text,
     question_url |-> url,
     question_details |->
        IF details \in {None, ""} THEN "N/A" ELSE JsonDumps(details)]

NoPrompt == [question_text |-> <<>>, question_url |-> None,
             question_details |-> None]

PlanReturned(plan) == [kind |-> "returned", plan |-> plan, error |-> None]
PlanRaised(msg)    == [kind |-> "raised", plan |-> NoPlan, error |-> msg]
NoPlanOutcome      == [kind |-> "none", plan |-> NoPlan, error |-> None]

PlanIdle ==
    /\ a_question = NoQuestion
    /\ a_pc = "idle"
    /\ a_calls = <<>>
    /\ a_details = None
    /\ a_prompt = NoPrompt
    /\ a_out = NoPlanOutcome

\* ---- the classification of a response
NoPayload == [type |-> None, error |-> None, attempts |-> 0]

ClassIdle ==
    /\ c_url = None
    /\ c_ct = ""
    /\ c_wellFormed = FALSE
    /\ c_payload = NoPayload

AuxIdle == FrontIdle /\ LogIdle /\ LoopIdle /\ PlanIdle /\ ClassIdle

NoParsed == [value |-> NoPlan, tried |-> <<>>]

SalvIdle ==
    /\ s_text = NoText
    /\ s_parsed = NoParsed
    /\ s_plan = NoPlan
    /\ s_done = {}

Init == ChainInit /\ ParseIdle /\ DlIdle /\ SalvIdle /\ ExecIdle /\ AuxIdle

Next ==
    \/ HandleQuiz
    \/ BackgroundStart
    \/ IterationTimeout
    \/ IterationStart
    \/ FetchPage
    \/ FetchRaises
    \/ ParsePage
    \/ ParsePageRaises
    \/ DownloadResources
    \/ ContextCall
    \/ AnalysisCall
    \/ AnalysisRaises
    \/ ExecuteDirect
    \/ ExecuteCode
    \/ ExecuteCodeFails
    \/ ExecuteNullCode
    \/ ExecuteNonObject
    \/ SubmitAnswer
    \/ SubmitRaises
    \/ BackgroundFinish
    \/ BackgroundCleanup
    \/ BackgroundCleanupRaises

Spec == Init /\ [][Next]_vars

\* ---- the chain when rendering a page takes time: lines 198 and 202 wait
\* 3000 ms and 1000 ms on every page, and the quiz service may name a next
\* URL on every verdict

\* a page takes the two waits at least
FetchPageTakesTime == FetchPageIn({PageWait} \cup (Durations \ {0}))

\* the requests and verdicts of SpecLive name one quiz URL
LiveUrls == {UrlQuiz1}

HandleQuizLive == HandleQuiz /\ (response' = 200 => req'.url \in LiveUrls)

\* in SpecLive a call other than the page fetch is answered at once or
\* outlasts the deadline
LiveDurations == {0, QUIZ_TIMEOUT_SECONDS + 1}
LiveTimed == now' - now \in LiveDurations

FetchRaisesLive == FetchRaises /\ LiveTimed
DownloadResourcesLive == DownloadResources /\ LiveTimed
ContextCallLive == ContextCall /\ LiveTimed
AnalysisCallLive == AnalysisCall /\ LiveTimed
AnalysisRaisesLive == AnalysisRaises /\ LiveTimed
ExecuteCodeLive == ExecuteCode /\ LiveTimed
ExecuteCodeFailsLive == ExecuteCodeFails /\ LiveTimed
ExecuteNullCodeLive == ExecuteNullCode /\ LiveTimed
ExecuteNonObjectLive == ExecuteNonObject /\ LiveTimed
SubmitRaisesLive == SubmitRaises /\ LiveTimed

SubmitAnswerAnyVerdict ==
    /\ SubmitAnswerUpTo(QUIZ_TIMEOUT_SECONDS \div PageWait + 2)
    /\ result'.url \in LiveUrls \cup {None}
    /\ LiveTimed

NextLive ==
    \/ HandleQuizLive
    \/ BackgroundStart
    \/ IterationTimeout
    \/ IterationStart
    \/ FetchPageTakesTime
    \/ FetchRaisesLive
    \/ ParsePage
    \/ ParsePageRaises
    \/ DownloadResourcesLive
    \/ ContextCallLive
    \/ AnalysisCallLive
    \/ AnalysisRaisesLive
    \/ ExecuteDirect
    \/ ExecuteCodeLive
    \/ ExecuteCodeFailsLive
    \/ ExecuteNullCodeLive
    \/ ExecuteNonObjectLive
    \/ SubmitAnswerAnyVerdict
    \/ SubmitRaisesLive
    \/ BackgroundFinish
    \/ BackgroundCleanup
    \/ BackgroundCleanupRaises

\* the event loop runs a coroutine that can run, and every awaited call
\* returns or raises
SpecLive == Init /\ [][NextLive]_vars /\ WF_vars(NextLive)

\* ---- _parse_question on every text
Texts == UNION {[1..k -> Vocabulary] : k \in 0..MaxTextLen}

InitParse ==
    /\ ChainInit /\ DlIdle /\ SalvIdle /\ ExecIdle /\ AuxIdle
    /\ p_text \in Texts
    /\ p_html = NoHtml
    /\ p_base = UrlQuiz1
    /\ p_record = NoQuestion
    /\ p_done = FALSE
    /\ p_error = None

\* quiz_solver.py:219-323 on the page made of p_text and p_html
ParseText ==
    /\ ~p_done
    /\ p_error = None
    /\ ~ParseRaises(p_html, p_base)
    /\ p_record' = ParseQuestion([text |-> p_text, atobs |-> p_html.atobs,
                                  elements |-> p_html.elements], p_base)
    /\ p_done' = TRUE
    /\ UNCHANGED <<p_text, p_html, p_base, p_error, frontVars, chainVars,
                   pipeVars, histVars, dlVars, salvVars, execVars, auxVars>>

\* quiz_solver.py:243-288: urljoin raises and nothing catches it
ParseTextRaises ==
    /\ ~p_done
    /\ p_error = None
    /\ ParseRaises(p_html, p_base)
    /\ p_error' = "Invalid IPv6 URL"
    /\ UNCHANGED <<p_text, p_html, p_base, p_record, p_done, frontVars,
                   chainVars, pipeVars, histVars, dlVars, salvVars, execVars,
                   auxVars>>

NextParse == ParseText

SpecParse == InitParse /\ [][NextParse]_vars

\* ---- _parse_question on pages with decode literals and elements
SeqsUpTo(S, n) == UNION {[1..k -> S] : k \in 0..n}

Elements ==
    {Audio(src, q) : src \in Srcs \cup {None},
                     q \in {<<>>, <<SrcClipRel>>, <<SrcClipAbs>>}}
    \cup {Anchor(href) : href \in Srcs \cup {None, SrcNotesRel,
                                               SrcExportRel, SrcBadRel}}
    \cup {Video(src, q) : src \in Srcs \cup {None},
                          q \in {<<>>, <<SrcClipRel>>}}

ExtractTexts == {<<>>, <<"here", UrlAnswer>>}

InitExtract ==
    /\ ChainInit /\ DlIdle /\ SalvIdle /\ ExecIdle /\ AuxIdle
    /\ p_text \in ExtractTexts
    /\ p_base \in {UrlQuiz1, UrlQuiz2}
    /\ p_html \in
          {[atobs |-> <<>>, elements |-> e] :
              e \in SeqsUpTo(Elements, MaxElements)}
          \cup {[atobs |-> a, elements |-> e] :
                  a \in SeqsUpTo(B64Args, MaxAtobs),
                  e \in {<<>>, <<Anchor(SrcDataRel)>>}}
    /\ p_record = NoQuestion
    /\ p_done = FALSE
    /\ p_error = None

NextExtract ==
    \/ ParseText
    \/ ParseTextRaises

SpecExtract == InitExtract /\ [][NextExtract]_vars

\* ---- download_files on every list of distinct URLs
InitDownload ==
    /\ ChainInit /\ ParseIdle /\ SalvIdle /\ ExecIdle /\ AuxIdle
    /\ dl_urls \in DistinctSeqs(DlUrls, MaxUrls)
    /\ dl_i = 1
    /\ dl_attempt = 0
    /\ dl_success = FALSE
    /\ dl_last_error = None
    /\ dl_files = EmptyFiles
    /\ dl_hist = EmptyHist
    /\ dl_pc = IF dl_urls = <<>> THEN "done" ELSE "get"

NextDownload ==
    \/ DlAttemptFails
    \/ DlSleepOver
    \/ DlAttemptSucceeds

SpecDownload == InitDownload /\ [][NextDownload]_vars

\* ---- the salvage functions on every response text
InitSalvage ==
    /\ ChainInit /\ ParseIdle /\ DlIdle /\ ExecIdle /\ AuxIdle
    /\ s_text \in LlmTexts
    /\ s_parsed = NoParsed
    /\ s_plan = NoPlan
    /\ s_done = {}

\* llm_handler.py:389-427 applied to s_text
SalvageParse ==
    /\ "parse" \notin s_done
    /\ s_parsed' = ParseJsonResponse(s_text)
    /\ s_done' = s_done \cup {"parse"}
    /\ UNCHANGED <<s_text, s_plan, frontVars, chainVars, pipeVars, histVars,
                   parseVars, dlVars, execVars, auxVars>>

\* llm_handler.py:367-387 applied to s_text
SalvageProcess ==
    /\ "process" \notin s_done
    /\ s_plan' = ProcessLlmResponse(s_text)
    /\ s_done' = s_done \cup {"process"}
    /\ UNCHANGED <<s_text, s_parsed, frontVars, chainVars, pipeVars, histVars,
                   parseVars, dlVars, execVars, auxVars>>

NextSalvage ==
    \/ SalvageParse
    \/ SalvageProcess

SpecSalvage == InitSalvage /\ [][NextSalvage]_vars

-----------------------------------------------------------------------------
(* handle_quiz on its own (main.py:396-452, models.py:5-21)                *)

allButFront == <<frontVars, chainVars, pipeVars, histVars, parseVars, dlVars,
                 salvVars, execVars, logVars, loopVars, planVars, classVars>>

\* POST /quiz with a body: validation, the two checks, the task entry and
\* the background task
FrontRequest ==
    /\ f_count < MaxRequests
    /\ \E body \in [email : RawEmails, secret : RequestSecrets,
                     url : RawUrls] :
         LET request == QuizRequest(body)
         IN /\ f_request' = body
            /\ IF request = NoRequest
               THEN /\ f_response' = 400
                    /\ UNCHANGED <<f_tasks, f_scheduled>>
               ELSE IF ~SecretOk(request) \/ ~EmailOk(request)
               THEN /\ f_response' = 403
                    /\ UNCHANGED <<f_tasks, f_scheduled>>
               ELSE /\ f_response' = 200
                    /\ f_tasks' =
                           (f_now :> NewTask(request.url, f_now)) @@ f_tasks
                    /\ f_scheduled' =
                           Append(f_scheduled,
                                  [email |-> request.email,
                                   secret |-> request.secret,
                                   url |-> request.url, task_id |-> f_now,
                                   pc |-> "scheduled"])
    /\ f_count' = f_count + 1
    /\ UNCHANGED <<f_now, allButFront>>

\* time passes between two requests
FrontTick ==
    /\ f_now < MaxClock
    /\ f_now' = f_now + 1
    /\ UNCHANGED <<f_request, f_response, f_tasks, f_scheduled, f_count,
                   allButFront>>

NextFront ==
    \/ FrontRequest
    \/ FrontTick

SpecFront == Init /\ [][NextFront]_vars

-----------------------------------------------------------------------------
(* solve_quiz_background for every accepted request (main.py:455-503)      *)

\* the exception solve_quiz_chain caught at quiz_solver.py:86, if any
ChainErrors == {None, "submit failed"}

\* active_tasks[task_id]["status"] = "solving" under the membership test
Solving(tasks, id) ==
    IF id \in DOMAIN tasks THEN [tasks EXCEPT ![id].status = "solving"]
    ELSE tasks

\* main.py:478-494: the status written after the awaited chain; e is what
\* the chain let escape
Finished(tasks, id, e, t) ==
    IF id \notin DOMAIN tasks THEN tasks
    ELSE IF e = None
    THEN [tasks EXCEPT ![id].status = "completed", ![id].completed_at = t]
    ELSE [tasks EXCEPT ![id].status = "failed", ![id].error = e,
                       ![id].failed_at = t]

\* main.py:502-503
Removed(tasks, id) == [t \in DOMAIN tasks \ {id} |-> tasks[t]]

TaskMoves(i, from, to) ==
    /\ i \in DOMAIN f_scheduled
    /\ f_scheduled[i].pc = from
    /\ f_scheduled' = [f_scheduled EXCEPT ![i].pc = to]

\* lines 465-472: the solver is built and the entry marked
TaskStart(i) ==
    /\ TaskMoves(i, "scheduled", "solving")
    /\ f_tasks' = Solving(f_tasks, f_scheduled[i].task_id)
    /\ UNCHANGED <<f_now, f_request, f_response, f_count, allButFront>>

\* lines 475-494: the awaited chain is back, whatever way it ended
TaskChainReturns(i) ==
    /\ TaskMoves(i, "solving", "finished")
    /\ \E caught \in ChainErrors :
         f_tasks' = Finished(f_tasks, f_scheduled[i].task_id,
                             Propagated(caught), f_now)
    /\ UNCHANGED <<f_now, f_request, f_response, f_count, allButFront>>

\* line 498: solver.close() returns and the coroutine sleeps (line 501)
TaskCloseReturns(i) ==
    /\ TaskMoves(i, "finished", "sleeping")
    /\ UNCHANGED <<f_now, f_request, f_response, f_tasks, f_count,
                   allButFront>>

\* line 498: an aclose() of quiz_solver.py:604-605 raises inside the
\* finally block; the exception leaves solve_quiz_background
TaskCloseRaises(i) ==
    /\ TaskMoves(i, "finished", "aborted")
    /\ UNCHANGED <<f_now, f_request, f_response, f_tasks, f_count,
                   allButFront>>

\* lines 501-503: the sleep is over
TaskRemove(i) ==
    /\ TaskMoves(i, "sleeping", "done")
    /\ f_tasks' = Removed(f_tasks, f_scheduled[i].task_id)
    /\ UNCHANGED <<f_now, f_request, f_response, f_count, allButFront>>

TaskStep(i) ==
    \/ TaskStart(i)
    \/ TaskChainReturns(i)
    \/ TaskCloseReturns(i)
    \/ TaskCloseRaises(i)
    \/ TaskRemove(i)

NextTasks ==
    \/ FrontRequest
    \/ FrontTick
    \/ \E i \in 1..MaxRequests : TaskStart(i)
    \/ \E i \in 1..MaxRequests : TaskChainReturns(i)
    \/ \E i \in 1..MaxRequests : TaskCloseReturns(i)
    \/ \E i \in 1..MaxRequests : TaskCloseRaises(i)
    \/ \E i \in 1..MaxRequests : TaskRemove(i)

\* the event loop runs every coroutine that can run, and every awaited call
\* returns or raises
SpecTasks ==
    Init /\ [][NextTasks]_vars /\ \A i \in 1..MaxRequests : WF_vars(TaskStep(i))

-----------------------------------------------------------------------------
(* The shared log on its own (main.py:57-77, 369-382)                      *)

allButLog == <<frontVars, chainVars, pipeVars, histVars, parseVars, dlVars,
               salvVars, execVars, fdVars, loopVars, planVars, classVars>>

\* main.py:61-77 add_log, from a handler or as a chain's callback
AddLog ==
    /\ l_calls < MaxLogCalls
    /\ quiz_logs' = Appended(quiz_logs, LogEntry(l_calls + 1, "message"))
    /\ l_calls' = l_calls + 1
    /\ l_view' = <<>>
    /\ UNCHANGED allButLog

\* main.py:377-382 DELETE /logs: clear, then add_log
ClearLogs ==
    /\ l_calls < MaxLogCalls
    /\ quiz_logs' = Appended(<<>>, LogEntry(l_calls + 1, "Logs cleared via API"))
    /\ l_calls' = l_calls + 1
    /\ l_view' = <<>>
    /\ UNCHANGED allButLog

\* main.py:370-374 GET /logs
GetLogs ==
    /\ \E limit \in {0, 100} : l_view' = LastOf(quiz_logs, limit)
    /\ UNCHANGED <<quiz_logs, l_calls, allButLog>>

NextLog ==
    \/ AddLog
    \/ ClearLogs
    \/ GetLogs

SpecLog == Init /\ [][NextLog]_vars

-----------------------------------------------------------------------------
(* Chains on the event loop (main.py:435-476, quiz_solver.py:44-146,       *)
(* llm_handler.py:495-502).  Coroutines run on one thread: a coroutine     *)
(* keeps the thread until it awaits, and a call that does not await keeps  *)
(* it until the call returns.                                              *)

allButLoop == <<frontVars, chainVars, pipeVars, histVars, parseVars, dlVars,
                salvVars, execVars, fdVars, logVars, planVars, classVars>>

\* no coroutine is inside a synchronous call
LoopFree == lp_blocked = 0

Awaiting == {"page", "download", "posting"}

\* the awaited call of chain c has completed
Ready(c) ==
    /\ lp_chain[c].pc \in Awaiting
    /\ lp_chain[c].due <= lp_now

\* chain c can run as soon as the thread is free
Runnable(c) == lp_chain[c].pc \in {"scheduled", "loop"} \/ Ready(c)

Min(S) == CHOOSE x \in S : \A y \in S : x <= y

\* main.py:396-452: an accepted request is acknowledged, its chain is
\* handed to the background tasks
LoopRequest ==
    /\ LoopFree
    /\ \E c \in LoopChains :
         /\ lp_chain[c].pc = "none"
         /\ \A o \in LoopChains : o < c => lp_chain[o].pc # "none"
         /\ lp_chain' = [lp_chain EXCEPT ![c].pc = "scheduled"]
    /\ lp_acks' = lp_acks + 1
    /\ UNCHANGED <<lp_now, lp_blocked, allButLoop>>

\* main.py:466-476, quiz_solver.py:44-46
LoopStart(c) ==
    /\ LoopFree
    /\ lp_chain[c].pc = "scheduled"
    /\ lp_chain' = [lp_chain EXCEPT ![c].pc = "loop",
                                    ![c].start_time = lp_now,
                                    ![c].chainState = "Running"]
    /\ UNCHANGED <<lp_now, lp_blocked, lp_acks, allButLoop>>

\* quiz_solver.py:53-62: the deadline check stops the chain
LoopTimeout(c) ==
    /\ LoopFree
    /\ lp_chain[c].pc = "loop"
    /\ DeadlineExceeded(lp_now - lp_chain[c].start_time)
    /\ lp_chain' =
          [lp_chain EXCEPT ![c].question_count = NextCount(@),
                           ![c].elapsed = lp_now - lp_chain[c].start_time,
                           ![c].own_elapsed = lp_chain[c].own,
                           ![c].chainState = "Timeout",
                           ![c].pc = "ended"]
    /\ UNCHANGED <<lp_now, lp_blocked, lp_acks, allButLoop>>

\* quiz_solver.py:53-65 and 109, 173: the check passes and the chain
\* awaits the first call of the question
LoopAwaitPage(c) ==
    /\ LoopFree
    /\ lp_chain[c].pc = "loop"
    /\ ~DeadlineExceeded(lp_now - lp_chain[c].start_time)
    /\ \E d \in CallDurations(1) :
         lp_chain' =
           [lp_chain EXCEPT ![c].question_count = NextCount(@),
                            ![c].elapsed = lp_now - lp_chain[c].start_time,
                            ![c].own_elapsed = lp_chain[c].own,
                            ![c].due = lp_now + d,
                            ![c].own = @ + d,
                            ![c].call = 1,
                            ![c].pc = "page"]
    /\ UNCHANGED <<lp_now, lp_blocked, lp_acks, allButLoop>>

\* an awaited call is resumed, at the time the thread is free, and the
\* chain awaits call k; the call takes its own time from there
AwaitCall(c, k) ==
    \E d \in CallDurations(k) :
       lp_chain' = [lp_chain EXCEPT ![c].due = lp_now + d,
                                    ![c].own = @ + d,
                                    ![c].call = k,
                                    ![c].pc = "page"]

\* quiz_solver.py:198, 202, llm_handler.py:86-93: the next awaited call of
\* the question
LoopNextCall(c) ==
    /\ LoopFree
    /\ lp_chain[c].pc = "page"
    /\ Ready(c)
    /\ lp_chain[c].call < Len(PageCalls)
    /\ AwaitCall(c, lp_chain[c].call + 1)
    /\ UNCHANGED <<lp_now, lp_blocked, lp_acks, allButLoop>>

\* quiz_solver.py:116-122 and 339: the page names an audio file and
\* download_files awaits its GET
LoopDownload(c) ==
    /\ LoopFree
    /\ lp_chain[c].pc = "page"
    /\ Ready(c)
    /\ PageCalls[lp_chain[c].call] = "wait1000"
    /\ \E d \in DownloadDurations :
         lp_chain' = [lp_chain EXCEPT ![c].due = lp_now + d,
                                      ![c].own = @ + d,
                                      ![c].pc = "download"]
    /\ UNCHANGED <<lp_now, lp_blocked, lp_acks, allButLoop>>

\* quiz_solver.py:363 and 465-470: transcribe_audio calls subprocess.run
\* on ffmpeg, not awaited; the thread stays in the call
LoopTranscribe(c) ==
    /\ LoopFree
    /\ lp_chain[c].pc = "download"
    /\ Ready(c)
    /\ \E d \in TranscribeDurations :
         lp_chain' = [lp_chain EXCEPT ![c].due = lp_now + d,
                                      ![c].own = @ + d,
                                      ![c].pc = "transcribe"]
    /\ lp_blocked' = c
    /\ UNCHANGED <<lp_now, lp_acks, allButLoop>>

\* quiz_solver.py:465-487 and llm_handler.py:86-90: ffmpeg is back (a
\* failure is caught inside transcribe_audio) and the chain awaits the
\* context call
LoopTranscribeReturns(c) ==
    /\ lp_blocked = c
    /\ lp_chain[c].pc = "transcribe"
    /\ lp_now' = lp_chain[c].due
    /\ lp_blocked' = 0
    /\ \E d \in CallDurations(lp_chain[c].call + 1) :
         lp_chain' = [lp_chain EXCEPT ![c].due = lp_chain[c].due + d,
                                      ![c].own = @ + d,
                                      ![c].call = lp_chain[c].call + 1,
                                      ![c].pc = "page"]
    /\ UNCHANGED <<lp_acks, allButLoop>>

\* llm_handler.py:497-502: subprocess.run is called, not awaited; the
\* thread stays in the call until the script ends or the timeout expires
LoopSubprocessRun(c) ==
    /\ LoopFree
    /\ lp_chain[c].pc = "page"
    /\ Ready(c)
    /\ lp_chain[c].call = Len(PageCalls)
    /\ \E d \in SubprocessDurations :
         lp_chain' = [lp_chain EXCEPT ![c].due = lp_now + d,
                                      ![c].own = @ + d,
                                      ![c].pc = "subprocess"]
    /\ lp_blocked' = c
    /\ UNCHANGED <<lp_now, lp_acks, allButLoop>>

\* llm_handler.py:504-513, quiz_solver.py:138-144 and 583: subprocess.run
\* returns with exit status 0 and the chain awaits the POST
LoopSubprocessReturns(c) ==
    /\ lp_blocked = c
    /\ lp_chain[c].pc = "subprocess"
    /\ lp_now' = lp_chain[c].due
    /\ lp_blocked' = 0
    /\ \E d \in IoDurations :
         lp_chain' = [lp_chain EXCEPT ![c].due = lp_chain[c].due + d,
                                      ![c].own = @ + d,
                                      ![c].pc = "posting"]
    /\ UNCHANGED <<lp_acks, allButLoop>>

\* llm_handler.py:497-507 and quiz_solver.py:86-90: the script exits with
\* another status, or the timeout expires and subprocess.run raises
\* TimeoutExpired; the handler of the loop ends the chain, nothing is
\* posted
LoopSubprocessRaises(c) ==
    /\ lp_blocked = c
    /\ lp_chain[c].pc = "subprocess"
    /\ lp_now' = lp_chain[c].due
    /\ lp_blocked' = 0
    /\ lp_chain' = [lp_chain EXCEPT ![c].pc = OnException.pc,
                                    ![c].chainState = OnException.chainState]
    /\ UNCHANGED <<lp_acks, allButLoop>>

\* quiz_solver.py:69-84: the verdict names a next question or none
LoopVerdict(c) ==
    /\ LoopFree
    /\ lp_chain[c].pc = "posting"
    /\ Ready(c)
    /\ \E more \in BOOLEAN :
         /\ more => lp_chain[c].question_count < MaxLoopQuestions
         /\ lp_chain' =
               [lp_chain EXCEPT
                  ![c].pc = IF more THEN "loop" ELSE "ended",
                  ![c].chainState = IF more THEN "Running" ELSE "Completed"]
    /\ UNCHANGED <<lp_now, lp_blocked, lp_acks, allButLoop>>

\* nothing can run: the loop sleeps until the next awaited call completes
LoopSleeps ==
    /\ LoopFree
    /\ \A c \in LoopChains : ~Runnable(c)
    /\ \E c \in LoopChains : lp_chain[c].pc \in Awaiting
    /\ lp_now' = Min({lp_chain[c].due :
                        c \in {x \in LoopChains :
                                 lp_chain[x].pc \in Awaiting}})
    /\ UNCHANGED <<lp_blocked, lp_chain, lp_acks, allButLoop>>

NextLoop ==
    \/ LoopRequest
    \/ \E c \in LoopChains : LoopStart(c)
    \/ \E c \in LoopChains : LoopTimeout(c)
    \/ \E c \in LoopChains : LoopAwaitPage(c)
    \/ \E c \in LoopChains : LoopNextCall(c)
    \/ \E c \in LoopChains : LoopDownload(c)
    \/ \E c \in LoopChains : LoopTranscribe(c)
    \/ \E c \in LoopChains : LoopTranscribeReturns(c)
    \/ \E c \in LoopChains : LoopSubprocessRun(c)
    \/ \E c \in LoopChains : LoopSubprocessReturns(c)
    \/ \E c \in LoopChains : LoopSubprocessRaises(c)
    \/ \E c \in LoopChains : LoopVerdict(c)
    \/ LoopSleeps

SpecLoop == Init /\ [][NextLoop]_vars

-----------------------------------------------------------------------------
(* analyze_quiz on its own (llm_handler.py:73-93, 163-193, 320-365), on    *)
(* the record of every page; quiz_url and page_content are never empty in  *)
(* the chain, so the context call is always made.                          *)

allButPlan == <<frontVars, chainVars, pipeVars, histVars, parseVars, dlVars,
                salvVars, execVars, fdVars, logVars, loopVars, classVars>>

InitPlan ==
    /\ ChainInit /\ ParseIdle /\ DlIdle /\ SalvIdle /\ ExecIdle
    /\ FrontIdle /\ LogIdle /\ LoopIdle /\ ClassIdle
    /\ a_question \in {ParseQuestion(page, UrlQuiz1) : page \in Pages}
    /\ a_pc = "context"
    /\ a_calls = <<>>
    /\ a_details = None
    /\ a_prompt = NoPrompt
    /\ a_out = NoPlanOutcome

\* lines 86-92 and 174-190: the context call answers; its stripped
\* content goes into the prompt
PlanContextReturns ==
    /\ a_pc = "context"
    /\ \E content \in ContextContents :
         /\ a_details' = StripContent(content)
         /\ a_prompt' = BuildAnalysisPrompt(a_question, a_details', UrlQuiz1)
    /\ a_calls' = Append(a_calls, "context")
    /\ a_pc' = "analysis"
    /\ UNCHANGED <<a_question, a_out, allButPlan>>

\* lines 174-193: the POST, the status, the decoding or the indexing
\* raises; the handler returns None
PlanContextFails ==
    /\ a_pc = "context"
    /\ a_details' = None
    /\ a_prompt' = BuildAnalysisPrompt(a_question, None, UrlQuiz1)
    /\ a_calls' = Append(a_calls, "context")
    /\ a_pc' = "analysis"
    /\ UNCHANGED <<a_question, a_out, allButPlan>>

\* lines 93 and 344-361: the analysis call answers
PlanAnalysisReturns ==
    /\ a_pc = "analysis"
    /\ \E llm_response \in LlmTexts :
         a_out' = PlanReturned(ProcessLlmResponse(llm_response))
    /\ a_calls' = Append(a_calls, "analysis")
    /\ a_pc' = "done"
    /\ UNCHANGED <<a_question, a_details, a_prompt, allButPlan>>

\* lines 363-365: the handler prints and re-raises
PlanAnalysisFails ==
    /\ a_pc = "analysis"
    /\ a_out' = PlanRaised("LLM call failed")
    /\ a_calls' = Append(a_calls, "analysis")
    /\ a_pc' = "done"
    /\ UNCHANGED <<a_question, a_details, a_prompt, allButPlan>>

NextPlan ==
    \/ PlanContextReturns
    \/ PlanContextFails
    \/ PlanAnalysisReturns
    \/ PlanAnalysisFails

SpecPlan == InitPlan /\ [][NextPlan]_vars

-----------------------------------------------------------------------------
(* The branches of quiz_solver.py:358-418 on every URL and content type    *)

allButClass == <<frontVars, chainVars, pipeVars, histVars, parseVars, dlVars,
                 salvVars, execVars, fdVars, logVars, loopVars, planVars>>

InitClassify ==
    /\ ChainInit /\ ParseIdle /\ DlIdle /\ SalvIdle /\ ExecIdle
    /\ FrontIdle /\ LogIdle /\ LoopIdle /\ PlanIdle
    /\ c_url \in DlUrls \cup {DlUpperCsv, DlAudioDir}
    /\ c_ct \in ContentTypes \cup MoreContentTypes
    /\ c_wellFormed \in BOOLEAN
    /\ c_payload = NoPayload

\* lines 358-418 for a 200 response with a body
ClassifyResponse ==
    /\ c_payload = NoPayload
    /\ c_payload' = Classify(c_url, c_ct, c_wellFormed)
    /\ UNCHANGED <<c_url, c_ct, c_wellFormed, allButClass>>

NextClassify == ClassifyResponse

SpecClassify == InitClassify /\ [][NextClassify]_vars

-----------------------------------------------------------------------------
(* execute_solution and _execute_python_solution on their own              *)
(* (llm_handler.py:429-520)                                                *)

InitExecute ==
    /\ ChainInit /\ ParseIdle /\ DlIdle /\ SalvIdle /\ AuxIdle
    /\ e_plan \in [answer_type : {"number", "boolean", "object", "string",
                                  Absent},
                   solution_code : ScriptCodes \cup DirectAnswers
                                   \cup {None, Absent},
                   final_answer : {"1,234", None}]
    /\ e_pc = "start"
    /\ e_file = "none"
    /\ e_runs = 0
    /\ e_run = NoRun
    /\ e_unlink = "none"
    /\ e_out = NoOutcome

restVars == <<frontVars, chainVars, pipeVars, histVars, parseVars, dlVars,
              salvVars, auxVars>>

\* lines 436-464: no keyword in solution_code
ExecDirect ==
    /\ e_pc = "start"
    /\ SolutionCode(e_plan) # None
    /\ ~ContainsMarker(SolutionCode(e_plan))
    /\ e_out' = Returned(Coerce(AnswerType(e_plan), SolutionCode(e_plan)))
    /\ e_pc' = "done"
    /\ UNCHANGED <<e_plan, e_file, e_runs, e_run, e_unlink, restVars>>

\* line 439 with "solution_code": null
ExecTypeError ==
    /\ e_pc = "start"
    /\ SolutionCode(e_plan) = None
    /\ e_out' = Raised("argument of type 'NoneType' is not iterable")
    /\ e_pc' = "done"
    /\ UNCHANGED <<e_plan, e_file, e_runs, e_run, e_unlink, restVars>>

\* lines 439-440 and 489-491: the script is written to a temporary file
ExecWrite ==
    /\ e_pc = "start"
    /\ SolutionCode(e_plan) # None
    /\ ContainsMarker(SolutionCode(e_plan))
    /\ e_file' = "exists"
    /\ e_pc' = "written"
    /\ UNCHANGED <<e_plan, e_runs, e_run, e_unlink, e_out, restVars>>

\* lines 489-491: f.write raises after NamedTemporaryFile(delete=False)
\* made the file; this is before the try of line 495
ExecWriteFails ==
    /\ e_pc = "start"
    /\ SolutionCode(e_plan) # None
    /\ ContainsMarker(SolutionCode(e_plan))
    /\ e_file' = "exists"
    /\ e_out' = Raised("write failed")
    /\ e_pc' = "done"
    /\ UNCHANGED <<e_plan, e_runs, e_run, e_unlink, restVars>>

\* lines 495-520: one subprocess.run, then the finally block
ExecRun ==
    /\ e_pc = "written"
    /\ \E run \in Runs, unlinked \in BOOLEAN :
         /\ e_run' = run
         /\ e_runs' = e_runs + 1
         /\ e_unlink' = IF unlinked THEN "ok" ELSE "failed"
         /\ e_file' = IF unlinked THEN "removed" ELSE "exists"
         /\ e_out' = AfterUnlink(RunResult(run), unlinked)
    /\ e_pc' = "done"
    /\ UNCHANGED <<e_plan, restVars>>

NextExecute ==
    \/ ExecDirect
    \/ ExecTypeError
    \/ ExecWrite
    \/ ExecWriteFails
    \/ ExecRun

SpecExecute == InitExecute /\ [][NextExecute]_vars

-----------------------------------------------------------------------------
(* Properties of the chain driver (Spec)                                   *)

Terminated == pc \in {"ended", "retained", "done", "aborted"}

\* a verdict came back from _submit_answer in this step
VerdictStep == pc = "submit" /\ chainState' # "Failed"

\* C1: after a verdict with correct = true, a next URL makes the loop go on
\* with exactly that URL (the pipeline entered next gets it); no next URL
\* ends the chain as Completed, and no pipeline is started after that.
C1_CorrectVerdict ==
    [][ /\ (VerdictStep /\ result'.correct /\ result'.url # None)
            => (current_url' = result'.url /\ pc' = "loop"
                /\ chainState' = "Running")
        /\ (VerdictStep /\ result'.correct /\ result'.url = None)
            => (chainState' = "Completed" /\ pc' = "ended")
        /\ (pc = "loop" /\ pc' = "fetch" /\ result.present /\ result.correct)
            => quiz_url' = result.url
        /\ chainState = "Completed"
            => (chainState' = "Completed"
                /\ pipelines_started' = pipelines_started
                /\ pc' \notin PipelineSteps \cup {"loop"})
      ]_vars

C1_Witness ==
    /\ chainState = "Completed"
    /\ all_correct
    /\ pipelines_started = 2
    /\ quiz_url # req.url
    /\ pc = "done"

\* C2: after a verdict with correct = false, a next URL makes the loop go
\* on with exactly that URL; no next URL ends the chain as Exhausted, and no
\* pipeline is started after that.
C2_IncorrectVerdict ==
    [][ /\ (VerdictStep /\ ~result'.correct /\ result'.url # None)
            => (current_url' = result'.url /\ pc' = "loop"
                /\ chainState' = "Running")
        /\ (VerdictStep /\ ~result'.correct /\ result'.url = None)
            => (chainState' = "Exhausted" /\ pc' = "ended")
        /\ (pc = "loop" /\ pc' = "fetch" /\ result.present /\ ~result.correct)
            => quiz_url' = result.url
        /\ chainState = "Exhausted"
            => (chainState' = "Exhausted"
                /\ pipelines_started' = pipelines_started
                /\ pc' \notin PipelineSteps \cup {"loop"})
      ]_vars

C2_Witness ==
    /\ chainState = "Exhausted"
    /\ ~result.correct
    /\ pipelines_started = 2
    /\ quiz_url # req.url
    /\ pc = "done"

\* C3: a pipeline step that raises makes the chain Failed in that very
\* step; after that no pipeline is started, nothing is posted and the
\* question count stays.
C3_RaiseFailsChain ==
    [][ /\ (pc \in PipelineSteps /\ error' # error)
            => (chainState' = "Failed" /\ pc' = "ended")
        /\ chainState = "Failed"
            => (chainState' = "Failed"
                /\ pipelines_started' = pipelines_started
                /\ posts' = posts
                /\ question_count' = question_count
                /\ pc' \notin PipelineSteps \cup {"loop"})
      ]_vars

C3_Witness ==
    /\ chainState = "Failed"
    /\ error = "Subprocess execution failed"
    /\ pipelines_started = 1
    /\ posts = 0
    /\ pc = "done"

\* C4: the deadline is read at the loop head only.  A pipeline is entered
\* only with elapsed <= QUIZ_TIMEOUT_SECONDS measured there, elapsed equal
\* to the deadline still enters it, TimedOut is entered from the loop head
\* only, and a step of a running pipeline never times the chain out.
C4_DeadlineAtBoundary ==
    [][ /\ (pc = "loop" /\ pc' = "fetch")
            => (elapsed' = now - start_time
                /\ elapsed' <= QUIZ_TIMEOUT_SECONDS)
        /\ (pc = "loop" /\ pc' # "loop"
            /\ now - start_time <= QUIZ_TIMEOUT_SECONDS)
            => pc' = "fetch"
        /\ (chainState' = "TimedOut" /\ chainState # "TimedOut")
            => (pc = "loop" /\ now - start_time > QUIZ_TIMEOUT_SECONDS)
        /\ pc \in PipelineSteps => chainState' # "TimedOut"
      ]_vars

C4_Witness ==
    /\ pc = "submit"
    /\ elapsed = QUIZ_TIMEOUT_SECONDS
    /\ now - start_time > QUIZ_TIMEOUT_SECONDS

\* C5: on TimedOut the question count equals the number of pipelines that
\* were started (1 when the deadline passes between questions 1 and 2).
C5_TimedOutCount ==
    chainState = "TimedOut" => question_count = pipelines_started

\* C6: a chain in which every answer was accepted and that neither failed
\* nor timed out ends Completed, with as many questions counted as
\* pipelines started and as answers posted, the last verdict without a
\* next URL.
C6_AllAccepted ==
    (Terminated /\ all_correct /\ chainState \notin {"Failed", "TimedOut"})
        => /\ chainState = "Completed"
           /\ question_count = pipelines_started
           /\ posts = question_count
           /\ result.present /\ result.correct /\ result.url = None

C6_Witness ==
    /\ chainState = "Completed"
    /\ all_correct
    /\ question_count = 2
    /\ posts = 2
    /\ req.url = UrlQuiz1
    /\ quiz_url = UrlQuiz2

\* C7: once the background task of a chain whose pipeline raised has
\* finished, its task entry has status failed with the error message and
\* a failure timestamp.
C7_FailedTaskStatus ==
    (chainState = "Failed" /\ pc = "retained")
        => /\ task_id \in DOMAIN active_tasks
           /\ active_tasks[task_id].status = "failed"
           /\ active_tasks[task_id].error = error
           /\ active_tasks[task_id].failed_at # NoTask

\* the URL the resolution policy of the specification gives
PolicyQuizReplaced(u) ==
    CASE u = UrlQuiz1 -> "https://h.test/submit-1"
      [] u = UrlQuiz2 -> "https://h.test/submit/2"
      [] OTHER        -> u
PolicySubmitUrl(quiz, submit_url) ==
    IF submit_url # None THEN submit_url
    ELSE IF HasQuizSegment(quiz) THEN PolicyQuizReplaced(quiz)
    ELSE HostSubmit(quiz)

\* C8: every answer is posted to the URL given by the ordered policy:
\* the record's submit_url, else the question URL with /quiz replaced by
\* /submit, else scheme://host/submit.
C8_SubmitUrlPolicy ==
    posts > 0 => post_url = PolicySubmitUrl(quiz_url, question_data.submit_url)

-----------------------------------------------------------------------------
(* Properties of _parse_question (SpecParse)                               *)

\* C9: submit_url is the URL following the POST/submit ... to/at phrase,
\* else the first URL of the text containing 'submit' or '/answer', else
\* null; it is always a URL of the text or null.
C9_SubmitUrlInferred ==
    p_done =>
        /\ p_record.submit_url =
              IF SubmitMatch(p_text) # None THEN SubmitMatch(p_text)
              ELSE FirstSubmitLike(p_text)
        /\ \/ p_record.submit_url = None
           \/ \E i \in 1..Len(p_text) : p_text[i] = p_record.submit_url

-----------------------------------------------------------------------------
(* Properties of download_files (SpecDownload)                             *)

\* C10: a URL whose first two GETs fail and whose third is answered 200
\* with a body is recorded with a payload that is not the failure record;
\* a URL whose three GETs all fail is recorded as the failure record with
\* the error of the last GET and attempts = 3.
C10_RetryThenRecord ==
    \A u \in DOMAIN dl_files :
        /\ (dl_hist[u].gets = 3 /\ dl_hist[u].fails = 2
            /\ dl_hist[u].last = "ok")
            => (dl_files[u].type # "error" /\ dl_files[u].attempts = 0)
        /\ (dl_hist[u].gets = 3 /\ dl_hist[u].fails = 3)
            => dl_files[u] = [type |-> "error", error |-> dl_hist[u].last,
                              attempts |-> 3]

C10_Witness ==
    \E u, v \in DOMAIN dl_files :
        /\ dl_hist[u].gets = 3 /\ dl_hist[u].fails = 2
        /\ dl_files[u].type = "binary"
        /\ dl_hist[v].fails = 3 /\ dl_hist[v].last = "HTTP 500"
        /\ dl_files[v].type = "error"

\* the URLs handed to download_files
DlInputs == {dl_urls[i] : i \in 1..Len(dl_urls)}

\* the coroutine is in the asyncio.sleep that follows a failed GET of u
Sleeping(u) == dl_pc = "sleep" /\ dl_urls[dl_i] = u

\* C11: every URL gets between 1 and 3 GETs; the code takes a GET as
\* failed exactly when it raised, was not answered 200, or came back with
\* an empty body; no GET follows the one answered 200 with a body, and a
\* URL is left only after such a GET or after its third GET.
C11_GetsPerUrl ==
    /\ \A u \in DOMAIN dl_hist :
          /\ dl_hist[u].gets \in 1..3
          /\ dl_hist[u].fails = dl_hist[u].gets - dl_hist[u].good
          /\ dl_hist[u].good <= 1
          /\ dl_hist[u].good = 1 => dl_hist[u].last = "ok"
          /\ u \in DOMAIN dl_files
                <=> \/ dl_hist[u].good = 1
                    \/ dl_hist[u].gets = 3 /\ ~Sleeping(u)
    /\ dl_pc = "done" => DlInputs \subseteq DOMAIN dl_hist

C11_Witness ==
    /\ dl_pc = "done"
    /\ \E u, v \in DOMAIN dl_hist :
          /\ dl_hist[u].gets = 2 /\ dl_hist[u].good = 1
          /\ dl_hist[v].gets = 3 /\ dl_hist[v].last = "Empty response"

\* C12: download_files always runs to its return; the map it returns has
\* exactly the input URLs as keys; the payload under a URL comes from that
\* URL's own GETs; URLs after a failed one are still attempted.
C12_KeysAreInputs ==
    /\ dl_pc \in {"idle", "get", "sleep", "done"}
    /\ DOMAIN dl_files \subseteq DlInputs
    /\ dl_pc = "done" =>
          /\ DOMAIN dl_files = DlInputs
          /\ \A u \in DlInputs : u \in DOMAIN dl_hist /\ dl_hist[u].gets >= 1
    /\ \A u \in DOMAIN dl_files :
          /\ dl_files[u].type = "error" <=> dl_hist[u].good = 0
          /\ dl_hist[u].good = 0 => dl_files[u].error = dl_hist[u].last
          /\ dl_hist[u].good = 1 => dl_files[u].type = dl_hist[u].kind

C12_Witness ==
    /\ dl_pc = "done"
    /\ Len(dl_urls) = 2
    /\ dl_files[dl_urls[1]].type = "error"
    /\ dl_files[dl_urls[2]].type = "json"
    /\ dl_files[dl_urls[2]].error # None

\* a body that arrived (200, not empty) and does not parse as the csv, pdf
\* or json it is taken for
ParseFailed(u) ==
    /\ u \in DOMAIN dl_files
    /\ dl_hist[u].good = 1
    /\ dl_hist[u].kind \in {"csv", "pdf", "json"}
    /\ ~dl_hist[u].wellFormed

\* C13 as stated: an unparsable csv, pdf or json body is recorded as the
\* failure record of its URL, is not retried, and the URLs after it are
\* still processed.
C13_ParseErrorIsFailedPayload ==
    \A u \in DOMAIN dl_files :
        ParseFailed(u) =>
            /\ dl_files[u].type = "error"
            /\ dl_hist[u].last = "ok"
            /\ dl_pc = "done" => DOMAIN dl_files = DlInputs

\* C13 amended: an unparsable csv, pdf or json body is recorded under its
\* URL as a payload of its classified type carrying the parse error (not
\* the failure record: no attempts count), is not retried, and the URLs
\* after it are still processed.
C13_ParseErrorIsTypedPayload ==
    \A u \in DOMAIN dl_files :
        ParseFailed(u) =>
            /\ dl_files[u].type = dl_hist[u].kind
            /\ dl_files[u].error # None
            /\ dl_files[u].attempts = 0
            /\ dl_hist[u].last = "ok"
            /\ dl_pc = "done" => DOMAIN dl_files = DlInputs

C13_Witness ==
    /\ dl_pc = "done"
    /\ Len(dl_urls) = 2
    /\ ParseFailed(dl_urls[1])
    /\ dl_hist[dl_urls[1]].kind = "csv"
    /\ dl_hist[dl_urls[1]].gets = 1
    /\ dl_hist[dl_urls[2]].gets >= 1

\* C14: a well-formed PDF that downloads successfully and is classified as
\* pdf is recorded as a document payload, not as a payload with an error.
C14_PdfIsDocument ==
    \A u \in DOMAIN dl_files :
        (dl_hist[u].good = 1 /\ dl_hist[u].kind = "pdf"
         /\ dl_hist[u].wellFormed)
            => (dl_files[u].type = "pdf" /\ dl_files[u].error = None)

-----------------------------------------------------------------------------
(* Properties of _parse_question (SpecExtract)                             *)

\* every reference the code looks at, resolved, in the order it visits
\* them: tag by tag, audio before a before video, nothing removed
RECURSIVE Candidates(_, _, _)
Candidates(elements, base_url, tag) ==
    IF elements = <<>> THEN <<>>
    ELSE LET e == Head(elements)
             own == IF e.src = None THEN <<>>
                    ELSE <<Resolve(base_url, e.src)>>
             kids == [i \in 1..Len(e.sources) |->
                         Resolve(base_url, e.sources[i])]
             mine == IF e.tag # tag THEN <<>>
                     ELSE IF tag = "audio" THEN own \o kids
                     ELSE IF tag = "a"
                     THEN SelectSeq(own, HasFileExtension)
                     ELSE own
         IN mine \o Candidates(Tail(elements), base_url, tag)

Discovered ==
    Candidates(p_html.elements, p_base, "audio")
    \o Candidates(p_html.elements, p_base, "a")
    \o Candidates(p_html.elements, p_base, "video")

FirstIndex(q, x) == CHOOSE i \in 1..Len(q) : q[i] = x /\ \A k \in 1..(i-1) : q[k] # x

IsAbsolute(u) == u \notin {None, SrcClipRel, SrcDataRel, SrcNotesRel}

\* C15: file_urls has no duplicate, holds exactly the discovered
\* references in the order each was first seen, and holds only absolute
\* URLs, relative references having been resolved against base_url.
C15_ResourceUrls ==
    p_done =>
        LET f == p_record.file_urls IN
        /\ \A i, j \in 1..Len(f) : i # j => f[i] # f[j]
        /\ Range(f) = Range(Discovered)
        /\ \A i, j \in 1..Len(f) :
              i < j => FirstIndex(Discovered, f[i]) < FirstIndex(Discovered, f[j])
        /\ \A i \in 1..Len(f) : IsAbsolute(f[i])

C15_Witness ==
    /\ p_done
    /\ p_base = UrlQuiz1
    /\ p_html.elements = <<Anchor(SrcDataRel), Audio(SrcClipRel, <<SrcClipAbs>>)>>
    /\ p_record.file_urls = <<SrcClipAbs, UrlData>>

\* the literals that decode
DecodableOnly(atobs) == SelectSeq(atobs, LAMBDA a : a \in {"c2VjcmV0", "aGVyZQ=="})

\* C16: question_text starts with the decoded literals, one per line in
\* their order of occurrence, followed by the visible text; a literal that
\* does not decode leaves the record as if it were not in the page.
C16_DecodedFirst ==
    p_done =>
        LET valid == DecodableOnly(p_html.atobs)
            n == Len(valid)
            q == p_record.question_text
        IN /\ Len(q) = (IF n = 0 THEN 0 ELSE 2 * n) + Len(p_text)
           /\ \A k \in 1..n :
                 /\ q[2 * k - 1] = B64DecodeUtf8(valid[k])
                 /\ q[2 * k] = NL
           /\ SubSeq(q, Len(q) - Len(p_text) + 1, Len(q)) = p_text
           /\ p_record = ParseQuestion([text |-> p_text, atobs |-> valid,
                                        elements |-> p_html.elements], p_base)

C16_Witness ==
    /\ p_done
    /\ p_html.atobs = <<"aGVyZQ==", "abc", "c2VjcmV0">>
    /\ p_record.question_text = <<"here", NL, "secret", NL, "here", UrlAnswer>>

-----------------------------------------------------------------------------
(* Properties of the salvage functions (SpecSalvage)                       *)

Failed3(text) ==
    /\ Direct(text).kind = "fail"
    /\ Greedy(text).kind = "fail"
    /\ Cleanup(text).kind = "fail"

\* C17: _parse_json_response always returns a value; the decodes it
\* attempts are an initial part of direct, greedy brace span, cleanup, in
\* that order; it returns what the first successful one gives and attempts
\* none after it; it returns the degraded plan exactly when all three
\* fail; an object inside a json fence is returned as that object.
C17_SalvageOrder ==
    "parse" \in s_done =>
        LET r == s_parsed
            last == r.tried[Len(r.tried)]
        IN /\ r.value.kind \in {"object", "list", "number"}
           /\ r.tried \in {<<"direct">>, <<"direct", "greedy">>,
                           <<"direct", "cleanup">>,
                           <<"direct", "greedy", "cleanup">>}
           /\ Direct(s_text).kind # "fail"
                 => r.value = Direct(s_text) /\ last = "direct"
           /\ (Direct(s_text).kind = "fail" /\ Greedy(s_text).kind # "fail")
                 => r.value = Greedy(s_text) /\ last = "greedy"
           /\ (Direct(s_text).kind = "fail" /\ Greedy(s_text).kind = "fail"
               /\ Cleanup(s_text).kind # "fail")
                 => r.value = Cleanup(s_text) /\ last = "cleanup"
           /\ IsDegraded(r.value) <=> Failed3(s_text)
           /\ s_text = Text(FenceOpen, BodyNoKey, FenceClose)
                 => r.value = Value("object", BodyNoKey, Absent, Absent)

C17_Witness ==
    /\ "parse" \in s_done
    /\ s_text = Text(FenceOpen, BodyList, FenceClose)
    /\ s_parsed.tried = <<"direct", "greedy">>
    /\ s_parsed.value.json = BodyInner

\* C18: for a response text in which no salvage strategy finds JSON,
\* _process_llm_response returns a plan with answer_type string whose
\* solution is the response text, character for character.
C18_DegradedKeepsRawText ==
    ("process" \in s_done /\ Failed3(s_text)) =>
        /\ s_plan.answer_type = "string"
        /\ s_plan.solution = s_text

\* C19: whatever the response text, the plan _process_llm_response
\* returns is a record with an answer_type that is present and not null.
C19_AnswerTypeNonNull ==
    "process" \in s_done =>
        /\ s_plan.kind = "object"
        /\ s_plan.answer_type \notin {None, Absent}

-----------------------------------------------------------------------------
(* The degraded plan in the chain (Spec)                                   *)

\* C20: with an unparsable analysis response the pipeline reaches the
\* submission step with the degraded plan, and the answer it submits is
\* the raw response text the plan carries in its solution field.
C20_DegradedAnswerFromRawText ==
    (pc = "submit" /\ IsDegraded(solution)) =>
        answer.value = solution.solution.body

-----------------------------------------------------------------------------
(* Properties of execute_solution (SpecExecute)                            *)

\* solution_code holds one of the five keywords
HasKeywordText(code) ==
    \/ Contains(code, "import") \/ Contains(code, "def ")
    \/ Contains(code, "for ") \/ Contains(code, "while ")
    \/ Contains(code, "=")

\* C21: a subprocess is run only for a solution_code holding one of the
\* keywords, and every such solution_code is taken down the script path;
\* a solution_code holding none of them starts no process, writes no
\* script, and the answer returned is its value coerced by answer_type.
C21_SubprocessIffMarker ==
    (e_pc \in {"written", "done"} /\ SolutionCode(e_plan) # None) =>
        LET code == SolutionCode(e_plan) IN
        /\ e_runs <= 1
        /\ e_runs = 1 => HasKeywordText(code)
        /\ HasKeywordText(code) <=> e_file # "none"
        /\ ~HasKeywordText(code) =>
              /\ e_runs = 0
              /\ e_out = Returned(Coerce(AnswerType(e_plan), code))

C21_Witness ==
    /\ e_pc = "done"
    /\ e_plan.solution_code = "important"
    /\ e_plan.answer_type = "string"
    /\ e_runs = 1

\* C22: a direct answer is never an exception.  number: commas removed,
\* a float when the rest has a decimal point, else an integer, and the raw
\* value when the rest is not numeric ("1,234.5" -> 1234.5, "1,234" ->
\* 1234).  boolean: true exactly for true, yes, 1 after lower-casing
\* ("Yes" -> true).  object: the decoded JSON, or the raw string.
C22_CoercionReference ==
    (e_pc = "done" /\ e_file = "none" /\ SolutionCode(e_plan) # None) =>
        LET raw == SolutionCode(e_plan)
            t == AnswerType(e_plan)
            a == e_out.answer
        IN /\ e_out.kind = "answer"
           /\ t = "number" =>
                 /\ a.type \in {"float", "int", "str"}
                 /\ a.type = "float" => HasDot(NoCommas(raw))
                 /\ a.type = "int" => ~HasDot(NoCommas(raw))
                 /\ a.type = "str" => a.value = raw
                 /\ raw = "1,234.5" => a = Typed("float", "1234.5")
                 /\ raw = "1,234" => a = Typed("int", "1234")
                 /\ raw = "abc" => a = Typed("str", "abc")
           /\ t = "boolean" =>
                 /\ a.type = "bool"
                 /\ a.value = "True" <=> Lower(raw) \in {"true", "yes", "1"}
                 /\ raw = "Yes" => a.value = "True"
           /\ t = "object" =>
                 /\ raw = "{\"a\": 1}" => a = Typed("dict", raw)
                 /\ raw \in {"1,234", "Yes", "abc"} => a = Typed("str", raw)
           /\ t = "string" => a = Typed("str", raw)

C22_Witness ==
    /\ e_pc = "done"
    /\ e_plan = [answer_type |-> "number", solution_code |-> "1,234",
                 final_answer |-> None]
    /\ e_out = Returned(Typed("int", "1234"))

\* C23: the script path returns an answer only after a run that exited
\* with status 0 in time, and then the answer is the standard output
\* stripped; a non-zero status or a timeout raises and returns nothing;
\* subprocess.run is called once.
C23_ExitStatusDecides ==
    (e_pc = "done" /\ e_run # NoRun) =>
        /\ e_runs = 1
        /\ e_out.kind = "answer" =>
              /\ e_run.kind = "exit" /\ e_run.code = 0
              /\ e_out.answer = Typed("str", Strip(e_run.stdout))
        /\ (e_run.kind = "timeout" \/ (e_run.kind = "exit" /\ e_run.code # 0))
              => (e_out.kind = "raised" /\ e_out.answer = NoAnswer)
        /\ (e_run.kind = "exit" /\ e_run.code = 0) => e_out.kind = "answer"

C23_Witness ==
    /\ e_pc = "done"
    /\ e_run = [kind |-> "exit", code |-> 0, stdout |-> "  hello world\n"]
    /\ e_out = Returned(Typed("str", "hello world"))

\* C24: on every way out of _execute_python_solution once the script file
\* has been created (the write failed, or subprocess.run succeeded, exited
\* non-zero, timed out or could not start) the script file is gone, and
\* after a run the outcome is the one the run produced, whether or not the
\* deletion failed.
C24_ScriptFileGone ==
    (e_pc = "done" /\ e_file # "none") =>
        /\ e_file = "removed"
        /\ e_run # NoRun => e_out = RunResult(e_run)

-----------------------------------------------------------------------------
(* C25: one POST per question iteration, no retry of a failed submission   *)

\* C25: every question iteration issues at most one POST (the number of
\* POSTs never exceeds the number of iterations and grows by one, from the
\* submit step only); a submission that raises (HTTP error status,
\* transport failure, undecodable body) ends the chain as failed, and a
\* failed chain issues no further POST and starts no further iteration.
C25_OnePostNoRetry ==
    /\ [](posts <= pipelines_started)
    /\ [][/\ posts' # posts => (posts' = posts + 1 /\ pc = "submit")
          /\ (pc = "submit" /\ error' = "submit failed")
                => (chainState' = "Failed" /\ pc' = "ended")
          /\ chainState = "Failed"
                => (posts' = posts /\ pipelines_started' = pipelines_started
                     /\ chainState' = "Failed")]_vars

\* a second question's submission raised after the first one was answered
C25_Witness ==
    /\ chainState = "Failed"
    /\ error = "submit failed"
    /\ pipelines_started = 2
    /\ posts = 2

-----------------------------------------------------------------------------
(* C26: the two checks of handle_quiz                                      *)

\* the request as sent differs from the configured credentials
SecretDiffers(body) == body.secret # STUDENT_SECRET
EmailDiffersIgnoringCase(body) == Lower(body.email) # Lower(STUDENT_EMAIL)
EmailDiffersIgnoringCaseAndSpace(body) ==
    StripWs(Lower(body.email)) # StripWs(Lower(STUDENT_EMAIL))

Rejected(status) == status \in {403, 400}

\* what a handled request may do when `differs` tells a mismatch
ChecksGuard(differs) ==
    f_count' # f_count =>
       /\ differs => Rejected(f_response')
       /\ Rejected(f_response')
            => (f_tasks' = f_tasks /\ f_scheduled' = f_scheduled)
       /\ f_scheduled' # f_scheduled
            => (~differs /\ f_response' = 200
                /\ f_now \in DOMAIN f_tasks')

\* C26 as stated: a request whose secret differs, or whose e-mail differs
\* from the configured one ignoring case, is rejected; a rejection creates
\* no task entry and schedules no chain; a chain is scheduled only for a
\* request passing both checks.
C26_RejectsMismatch ==
    [][ChecksGuard(SecretDiffers(f_request')
                   \/ EmailDiffersIgnoringCase(f_request'))]_vars

\* C26, amended: the e-mail is compared ignoring case and surrounding
\* whitespace; everything else as stated.
C26_RejectsMismatchAfterNormalisation ==
    [][ChecksGuard(SecretDiffers(f_request')
                   \/ EmailDiffersIgnoringCaseAndSpace(f_request'))]_vars

\* a padded address was accepted after another request was turned away
C26_Witness ==
    /\ f_count = 2
    /\ f_request.email = " Me@x.test "
    /\ f_response = 200
    /\ Len(f_scheduled) = 1
    /\ f_scheduled[1].email = "me@x.test"
    /\ DOMAIN f_tasks = {f_now}

-----------------------------------------------------------------------------
(* C27: the shared log                                                     *)

Entries(log) == {log[i] : i \in 1..Len(log)}

\* no more than maxlen entries, in insertion order
BoundedInOrder(log) ==
    /\ Len(log) <= maxlen
    /\ \A i \in 1..Len(log) - 1 : log[i].timestamp < log[i + 1].timestamp

\* the step drops entries only by evicting the oldest one at capacity
OnlyEviction ==
    Entries(quiz_logs) \ Entries(quiz_logs') # {}
       => /\ Len(quiz_logs) = maxlen
          /\ quiz_logs' = Append(Tail(quiz_logs),
                                 quiz_logs'[Len(quiz_logs')])
          /\ l_calls' = l_calls + 1

\* the step empties the log and leaves the one entry that tells so
Cleared ==
    /\ Len(quiz_logs') = 1
    /\ quiz_logs'[1] = LogEntry(l_calls', "Logs cleared via API")

\* C27 as stated: the log never holds more than 200 entries, entries keep
\* their insertion order, and an entry leaves the log only when the oldest
\* entry is evicted by an append at capacity.
C27_AppendOnly ==
    [][BoundedInOrder(quiz_logs') /\ OnlyEviction]_vars

\* C27, amended: as stated, except that DELETE /logs removes every entry
\* and leaves the single entry recording the clearing.
C27_AppendOnlyUntilCleared ==
    [][BoundedInOrder(quiz_logs') /\ (OnlyEviction \/ Cleared)]_vars

\* the log is full and its first entries have been evicted
C27_Witness ==
    /\ Len(quiz_logs) = maxlen
    /\ quiz_logs[1].timestamp = 3
    /\ l_calls = maxlen + 2

-----------------------------------------------------------------------------
(* C28: the wait on the subprocess                                         *)

\* a step of chain o
ChainStep(o) ==
    \/ LoopStart(o)
    \/ LoopTimeout(o)
    \/ LoopAwaitPage(o)
    \/ LoopNextCall(o)
    \/ LoopDownload(o)
    \/ LoopTranscribe(o)
    \/ LoopSubprocessRun(o)
    \/ LoopVerdict(o)

\* C28: while a chain waits for its subprocess to finish, a new solve
\* request can be acknowledged and every other chain that has something
\* to do can take its step.
C28_SubprocessWaitSuspends ==
    \A c \in LoopChains :
       lp_chain[c].pc \in {"subprocess", "transcribe"} =>
          /\ (\E o \in LoopChains : lp_chain[o].pc = "none")
                => ENABLED LoopRequest
          /\ \A o \in LoopChains \ {c} : Runnable(o) => ENABLED ChainStep(o)

-----------------------------------------------------------------------------
(* C29: chains share no chain state                                        *)

\* C29: the deadline decision of a chain is the one its own request, its
\* own awaited calls and its own verdicts give, whatever the other chains
\* do: the elapsed time it checks at line 60 exceeds the deadline exactly
\* when the time taken by its own steps does, and it ends by the timeout
\* only then.
C29_ChainsIsolated ==
    \A c \in LoopChains :
       /\ lp_chain[c].question_count > 0
            => (DeadlineExceeded(lp_chain[c].elapsed)
                  <=> DeadlineExceeded(lp_chain[c].own_elapsed))
       /\ lp_chain[c].chainState = "Timeout"
            => DeadlineExceeded(lp_chain[c].own_elapsed)

-----------------------------------------------------------------------------
(* C30: the order of the steps of one question iteration                   *)

\* fetch page, extract record, ingest resources, plan (the two model
\* calls), execute, submit
StepRank(step) ==
    CASE step = "fetch"    -> 1
      [] step = "parse"    -> 2
      [] step = "download" -> 3
      [] step = "context"  -> 4
      [] step = "analyze"  -> 4
      [] step = "execute"  -> 5
      [] step = "submit"   -> 6
      [] OTHER             -> 0

\* the step that follows `step` when it finishes without raising
Following(step, record) ==
    CASE step = "fetch"    -> {"parse"}
      [] step = "parse"    -> IF record.file_urls # <<>> THEN {"download"}
                              ELSE {"context"}
      [] step = "download" -> {"context"}
      [] step = "context"  -> {"analyze"}
      [] step = "analyze"  -> {"execute"}
      [] step = "execute"  -> {"submit"}
      [] OTHER             -> {"loop", "ended"}

\* C30: within one question iteration the steps run in the order fetch,
\* extract, ingest (only when the record lists a resource URL), plan,
\* execute, submit; no step runs twice; a step that raises ends the
\* iteration, so nothing runs after it; an answer is POSTed only from the
\* submit step, with the plan and the answer made in that iteration.
C30_StepOrder ==
    [][/\ (pc \in PipelineSteps /\ pc' # pc) =>
            \/ pc' \in Following(pc, question_data')
            \/ (pc' = "ended" /\ chainState' = "Failed"
                   /\ posts' = posts + (IF pc = "submit" THEN 1 ELSE 0))
       /\ (pc \in PipelineSteps /\ pc' \in PipelineSteps /\ pc' # pc) =>
            StepRank(pc') >= StepRank(pc) /\ pc' \notin {"fetch", pc}
       /\ pc' = "fetch" => (pc = "loop" /\ solution' = NoPlan
                            /\ answer' = NoAnswer)
       /\ pc' = "download" => question_data'.file_urls # <<>>
       /\ posts' # posts =>
            (pc = "submit" /\ solution # NoPlan /\ answer # NoAnswer)]_vars

\* a second question with a resource went through every step and was
\* submitted
C30_Witness ==
    /\ pipelines_started = 2
    /\ posts = 2
    /\ question_data.file_urls # <<>>
    /\ solution # NoPlan
    /\ answer # NoAnswer
    /\ result.present

-----------------------------------------------------------------------------
(* C31: the two model calls of the planner                                 *)

\* C31: when analyze_quiz is over it has made exactly two calls, the
\* context call first and the analysis call second; the prompt of the
\* analysis call holds the context call's output, or "N/A" when the
\* context call failed or answered nothing; a failed context call does
\* not stop the analysis call, and analyze_quiz raises only when the
\* analysis call fails.
C31_TwoCalls ==
    /\ a_pc = "analysis" => a_calls = <<"context">>
    /\ a_pc \in {"analysis", "done"} =>
          /\ a_details \notin {None, ""}
                => a_prompt.question_details = JsonDumps(a_details)
          /\ a_details \in {None, ""} => a_prompt.question_details = "N/A"
    /\ a_pc = "done" =>
          /\ a_calls = <<"context", "analysis">>
          /\ a_out.kind \in {"returned", "raised"}
          /\ a_out.kind = "raised" => a_out.error = "LLM call failed"

\* the context call gave a text and the analysis call a plan
C31_Witness ==
    /\ a_pc = "done"
    /\ a_details = "submit at /submit"
    /\ a_prompt.question_details = "\"submit at /submit\""
    /\ a_out.kind = "returned"
    /\ a_out.plan.kind = "object"

-----------------------------------------------------------------------------
(* C32: content type before extension                                      *)

\* what the content-type header says, None when it says nothing
HeaderType(ct) ==
    IF CtHas(ct, "audio") THEN "audio"
    ELSE IF CtHas(ct, "csv") THEN "csv"
    ELSE IF CtHas(ct, "pdf") THEN "pdf"
    ELSE IF CtHas(ct, "json") THEN "json"
    ELSE None

\* what the end of the URL says
ExtensionType(u) ==
    IF UrlEndsWith(u, ".mp3") THEN "audio"
    ELSE IF UrlEndsWith(u, ".csv") THEN "csv"
    ELSE IF UrlEndsWith(u, ".pdf") THEN "pdf"
    ELSE IF UrlEndsWith(u, ".json") THEN "json"
    ELSE None

\* C32: a classified resource has the type its content-type header names
\* (audio, then csv, pdf, json); only when the header names none of them
\* does the extension decide, and with neither it is plain binary.
C32_ContentTypeFirst ==
    c_payload # NoPayload =>
       c_payload.type =
          IF HeaderType(c_ct) # None THEN HeaderType(c_ct)
          ELSE IF ExtensionType(c_url) # None THEN ExtensionType(c_url)
          ELSE "binary"

-----------------------------------------------------------------------------
(* C33: which <a href> links become resource URLs                          *)

\* the resolved target ends with a recognized extension
EndsWithExtension(href) ==
    href \in {SrcClipAbs, "https://h.test/quiz/clip.mp3", UrlData}

\* the resolved hrefs of the page's <a> elements
AnchorTargets ==
    {Resolve(p_base, p_html.elements[i].src) :
        i \in {j \in 1..Len(p_html.elements) :
                 /\ p_html.elements[j].tag = "a"
                 /\ p_html.elements[j].src # None}}

\* what the <audio> and <video> elements of the page refer to
MediaTargets ==
    UNION {{Resolve(p_base, s) :
              s \in ({p_html.elements[i].src} \ {None})
                    \cup Range(p_html.elements[i].sources)} :
           i \in {j \in 1..Len(p_html.elements) :
                    p_html.elements[j].tag # "a"}}

\* C33: the target of an <a href> is among the resource URLs exactly when
\* it ends with a recognized extension (a target that an <audio> or
\* <video> element also names is left aside).
C33_AnchorEndsWithExtension ==
    p_done =>
       \A href \in AnchorTargets \ MediaTargets :
          href \in Range(p_record.file_urls) <=> EndsWithExtension(href)

-----------------------------------------------------------------------------
(* C34: _parse_question never raises                                       *)

\* C34: for every rendered page and base URL _parse_question lets no
\* exception escape, and the record it returns has its text, its
\* submission URL (or null) and its resource URLs.
C34_ParseNeverRaises ==
    /\ p_error = None
    /\ p_done =>
          /\ DOMAIN p_record = {"question_text", "submit_url", "file_urls"}
          /\ p_record.file_urls = FileUrls(p_html.elements, p_base)

-----------------------------------------------------------------------------
(* C35: every chain terminates                                             *)

\* the shortest time a page takes: the waits of lines 198 and 202
MinFetchTime == PageWait

\* C35: a chain that was scheduled ends as Completed, Exhausted, Failed or
\* TimedOut, and while every page takes time the number of pipelines it
\* starts stays within what the deadline allows, whatever the verdicts
\* say.
C35_ChainTerminates ==
    /\ (pc = "scheduled") ~>
          (pc = "ended" /\ chainState \in {"Completed", "Exhausted",
                                           "Failed", "TimedOut"})
    /\ [](pipelines_started <= QUIZ_TIMEOUT_SECONDS \div MinFetchTime + 1)

\* every verdict named the same next URL and the deadline ended the chain
C35_Witness ==
    /\ pc = "ended"
    /\ chainState = "TimedOut"
    /\ pipelines_started = QUIZ_TIMEOUT_SECONDS \div MinFetchTime + 1
    /\ posts = pipelines_started
    /\ result.url = req.url
    /\ current_url = req.url
    /\ question_count = pipelines_started + 1

-----------------------------------------------------------------------------
(* C36: a plan without solution_code                                       *)

\* C36: for a plan whose solution_code is null or absent and whose
\* final_answer holds the answer, execute_solution returns, without
\* raising, that final_answer coerced by answer_type.
C36_DirectAnswerForm ==
    (/\ e_pc = "done"
     /\ e_plan.solution_code \in {None, Absent}
     /\ e_plan.final_answer # None)
       => e_out = Returned(Coerce(AnswerType(e_plan), e_plan.final_answer))

-----------------------------------------------------------------------------
(* C37: the chain returns normally                                         *)

\* what solve_quiz_background records once solve_quiz_chain is back
\* (main.py:478-496): a normal return, or the exception that escaped
HandedBack ==
    IF active_tasks[task_id].status = "completed"
    THEN [returned |-> TRUE, raised |-> None]
    ELSE [returned |-> FALSE, raised |-> active_tasks[task_id].error]

\* C37: in every terminal state (Completed, Exhausted, Failed, TimedOut)
\* solve_quiz_chain returns normally and lets no pipeline exception
\* escape, so its caller sees the same normal return however the chain
\* ended.
C37_ReturnsNormally ==
    (pc = "retained" /\ task_id \in DOMAIN active_tasks)
        => /\ chainState \in {"Completed", "Exhausted", "Failed", "TimedOut"}
           /\ HandedBack = [returned |-> TRUE, raised |-> None]

C37_Witness ==
    /\ pc = "retained"
    /\ chainState = "Failed"
    /\ error # None
    /\ task_id \in DOMAIN active_tasks
    /\ HandedBack = [returned |-> TRUE, raised |-> None]

-----------------------------------------------------------------------------
(* C38: the life of a task-status entry                                    *)

StatusRank(s) ==
    CASE s = "processing" -> 1
      [] s = "solving"    -> 2
      [] OTHER            -> 3

\* the status of entry t does not go back, and a terminal one stays
Forward(t) ==
    (t \in DOMAIN f_tasks /\ t \in DOMAIN f_tasks')
        => /\ StatusRank(f_tasks'[t].status) >= StatusRank(f_tasks[t].status)
           /\ StatusRank(f_tasks[t].status) = 3
                 => f_tasks'[t].status = f_tasks[t].status

\* C38: the entry of every accepted request moves only forward through
\* processing, solving and one terminal status, and is eventually removed
\* from the task map, whatever way the chain and the solver cleanup ended.
C38_ForwardThenRemoved ==
    /\ [][\A t \in 0..MaxClock : Forward(t)]_vars
    /\ \A t \in 0..MaxClock :
          (t \in DOMAIN f_tasks) ~> (t \notin DOMAIN f_tasks)

-----------------------------------------------------------------------------
(* C39: task identifiers                                                   *)

Accepted == Len(f_scheduled') = Len(f_scheduled) + 1

\* the coroutines that write entry t
Writers(t) == {i \in DOMAIN f_scheduled : f_scheduled[i].task_id = t}

\* C39: the identifier given to an accepted request is not the key of an
\* entry still in the task map, so every key has one writer.
C39_FreshTaskId ==
    [][Accepted =>
          /\ f_scheduled'[Len(f_scheduled')].task_id \notin DOMAIN f_tasks
          /\ \A t \in DOMAIN f_tasks' : Cardinality(Writers(t)') <= 1]_vars

-----------------------------------------------------------------------------
(* C40: the type of an answer computed by code                             *)

\* execute_solution ran the plan as a script and returned its output
CodeAnswered == e_pc = "done" /\ e_runs = 1 /\ e_out.kind = "answer"

\* the plan's literal was returned without a subprocess
LiteralAnswered == e_pc = "done" /\ e_runs = 0 /\ e_out.kind = "answer"

\* C40: an answer computed by code is the trimmed standard output as a
\* string whatever answer_type is; the number, boolean and object
\* coercions are applied on the direct-answer path only, so the same text
\* has a different type depending on the path it took.
C40_CodeAnswerIsString ==
    /\ CodeAnswered
          => /\ e_out.answer = Typed("str", Strip(e_run.stdout))
             /\ (AnswerType(e_plan) = "number" /\ e_run.stdout = "42\n")
                   => e_out.answer # Coerce("number", "42")
    /\ (LiteralAnswered /\ AnswerType(e_plan) = "number"
          /\ SolutionCode(e_plan) = "42")
          => e_out.answer = Typed("int", "42")

C40_Witness ==
    /\ CodeAnswered
    /\ e_plan.answer_type = "number"
    /\ e_run.stdout = "42\n"
    /\ e_out.answer = Typed("str", "42")
    /\ Coerce("number", "42") = Typed("int", "42")

====
